---- MODULE Spec2Model ----
(***************************************************************************)
(* Transaction lifecycle, document numbering and stock adjustment of the   *)
(* fungus-back API.                                                        *)
(*                                                                         *)
(* The repository holds two generations of the same subsystem:             *)
(*   - the normalized one: a single Transaction collection with the        *)
(*     Quotation / Sale / Purchase discriminators, driven by               *)
(*     quotationService, saleService and purchaseService, every operation  *)
(*     inside a MongoDB session;                                           *)
(*   - the denormalized one: separate Quotation and Sale collections       *)
(*     driven directly by the quotation and sale controllers, which call   *)
(*     StockService.updateStock.                                           *)
(* Both generations define the same route and controller files, so a       *)
(* deployment runs one of them; the variable revision says which.          *)
(***************************************************************************)
EXTENDS Integers, Sequences, FiniteSets, TLC

VARIABLES
  revision,      \* "normalized" or "denormalized": the generation deployed
  transactions,  \* the Transaction collection (normalized), _id = index
  quotations,    \* the Quotation collection (denormalized), _id = index
  sales,         \* the Sale collection (denormalized), _id = index
  items,         \* the Item collection, _id -> document
  contacts,      \* the Contact collection, _id -> document
  logs,          \* the Log collection: the audit entries written, in order
  sessions,      \* service requests between their first read and their commit
  stockCalls,    \* updateStock calls between Item.findById and item.save
  stockLog,      \* history: the stock adjustments that returned, in order
  last           \* the request that took effect last and its answer

vars == <<revision, transactions, quotations, sales, items, contacts, logs, sessions,
          stockCalls, stockLog, last>>

(***************************************************************************)
(* Bounds of the model.                                                    *)
(***************************************************************************)
MaxTx == 2          \* documents per collection
MaxProc == 2        \* requests in flight at the same time
InitStock == 5      \* stock of the inventoried item when the run starts
MaxCalls == 3       \* stock adjustments started in a concurrent run

(***************************************************************************)
(* Enumerations of models/Transaction.ts.                                  *)
(***************************************************************************)
TransactionType == {"quotation", "purchase", "sale"}

DocumentType == {"factura", "boleta"}

TransactionStatus ==
  {"pending", "approved", "rejected", "converted", "received", "invoiced", "paid"}

\* QuotationStatus of the denormalized Quotation model.
QuotationStatus == {"pending", "approved", "rejected", "converted"}

(***************************************************************************)
(* Small helpers for JavaScript objects: a request body is a record whose  *)
(* optional fields may be absent; {...a, ...b} is Spread(a, b).            *)
(***************************************************************************)
Has(body, f) == f \in DOMAIN body

Spread(a, b) ==
  [k \in (DOMAIN a) \cup (DOMAIN b) |-> IF k \in DOMAIN b THEN b[k] ELSE a[k]]

\* An optional reference (ObjectId or undefined) is a set of at most one id.
NoRef == {}

Ref(id) == {id}

(***************************************************************************)
(* Amount calculator: calculateTransactionAmounts.  The tax rate is held   *)
(* in hundredths (0.19 is 19); Math.round(a / b) is RoundDiv(a, b).        *)
(***************************************************************************)
DefaultTaxRate == 19

\* A variant that cuts the fraction off.
RoundDivDown(a, b) == a \div b

RoundDiv(a, b) == (2 * a + b) \div (2 * b)

Max0(x) == IF x < 0 THEN 0 ELSE x

\* A variant whose factura subtotal is not floored at zero.
ProcessItemUnfloored(line, documentType, taxRate) ==
  IF documentType = "boleta"
  THEN [item      |-> line.item,
        quantity  |-> line.quantity,
        unitPrice |-> RoundDiv(line.unitPrice * 100, 100 + taxRate),
        discount  |-> RoundDiv(line.discount * 100, 100 + taxRate),
        subtotal  |-> Max0(RoundDiv((line.quantity * line.unitPrice - line.discount) * 100,
                                    100 + taxRate))]
  ELSE [item      |-> line.item,
        quantity  |-> line.quantity,
        unitPrice |-> line.unitPrice,
        discount  |-> line.discount,
        subtotal  |-> line.quantity * line.unitPrice - line.discount]

ProcessItem(line, documentType, taxRate) ==
  IF documentType = "boleta"
  THEN [item      |-> line.item,
        quantity  |-> line.quantity,
        unitPrice |-> RoundDiv(line.unitPrice * 100, 100 + taxRate),
        discount  |-> RoundDiv(line.discount * 100, 100 + taxRate),
        subtotal  |-> Max0(RoundDiv((line.quantity * line.unitPrice - line.discount) * 100,
                                    100 + taxRate))]
  ELSE [item      |-> line.item,
        quantity  |-> line.quantity,
        unitPrice |-> line.unitPrice,
        discount  |-> line.discount,
        subtotal  |-> Max0(line.quantity * line.unitPrice - line.discount)]

RECURSIVE SumSubtotals(_)
SumSubtotals(lines) ==
  IF Len(lines) = 0 THEN 0 ELSE lines[1].subtotal + SumSubtotals(Tail(lines))

calculateTransactionAmounts(lines, documentType, taxRate) ==
  IF Len(lines) = 0
  THEN [processedItems |-> <<>>, netAmount |-> 0, taxAmount |-> 0, totalAmount |-> 0]
  ELSE LET processedItems == [i \in 1..Len(lines) |-> ProcessItem(lines[i], documentType, taxRate)]
           netAmount == SumSubtotals(processedItems)
           taxAmount == RoundDiv(netAmount * taxRate, 100)
       IN  [processedItems |-> processedItems,
            netAmount      |-> netAmount,
            taxAmount      |-> taxAmount,
            totalAmount    |-> netAmount + taxAmount]

(***************************************************************************)
(* Correlative and document number.                                        *)
(***************************************************************************)
PadWidth == 4

RECURSIVE PadStart(_, _)
PadStart(s, width) == IF Len(s) >= width THEN s ELSE PadStart("0" \o s, width)

\* A variant that writes the correlative without padding.
DocumentNumberUnpadded(prefix, correlative) == prefix \o "-" \o ToString(correlative)

DocumentNumber(prefix, correlative) ==
  prefix \o "-" \o PadStart(ToString(correlative), PadWidth)

RECURSIVE MaxCorrelative(_)
MaxCorrelative(docs) ==
  IF Len(docs) = 0 THEN 0
  ELSE LET rest == MaxCorrelative(Tail(docs))
       IN  IF docs[1].correlative > rest THEN docs[1].correlative ELSE rest

\* A variant that passes over the records that are soft-deleted.
NextCorrelativeLive(docs) ==
  LET live == SelectSeq(docs, LAMBDA d : ~d.isDeleted)
  IN  IF Len(live) = 0 THEN 1 ELSE MaxCorrelative(live) + 1

\* Transaction.findOne({}).sort({ correlative: -1 }): last + 1, or 1 when none.
NextCorrelative(docs) == IF Len(docs) = 0 THEN 1 ELSE MaxCorrelative(docs) + 1

(***************************************************************************)
(* Outcome of a service operation: the documents it inserts and the        *)
(* updates it makes inside its session, or the error it throws (the        *)
(* session is then aborted and nothing is written).                        *)
(***************************************************************************)
Fail(err) == [ok |-> FALSE, error |-> err, inserts |-> <<>>, updates |-> <<>>]

Done(inserts, updates) == [ok |-> TRUE, error |-> "", inserts |-> inserts, updates |-> updates]

(***************************************************************************)
(* TransactionSchema: the stored fields, their defaults and validators.    *)
(***************************************************************************)
SchemaFields ==
  {"type", "correlative", "documentType", "documentNumber", "counterparty", "items",
   "taxRate", "netAmount", "taxAmount", "totalAmount", "status", "relatedQuotation",
   "isDeleted"}

SchemaDefaults == [counterparty |-> NoRef, relatedQuotation |-> NoRef, isDeleted |-> FALSE]

\* Mongoose casts the object to the schema: unknown fields dropped, defaults applied.
Cast(data) == LET d == Spread(SchemaDefaults, data) IN [f \in SchemaFields |-> d[f]]

ValidItems(lines) ==
  \A i \in 1..Len(lines) :
    /\ lines[i].quantity >= 1
    /\ lines[i].unitPrice >= 0
    /\ lines[i].discount >= 0
    /\ lines[i].subtotal >= 0

ValidDocument(doc) ==
  /\ doc.type \in TransactionType
  /\ doc.documentType \in DocumentType
  /\ doc.status \in TransactionStatus
  /\ doc.counterparty # NoRef
  /\ ValidItems(doc.items)
  /\ doc.netAmount >= 0 /\ doc.taxAmount >= 0 /\ doc.totalAmount >= 0
  /\ (doc.type # "quotation" \/ doc.relatedQuotation = NoRef)

\* Update validators (runValidators: true) look only at the paths being set.
ValidUpdate(set) ==
  /\ Has(set, "status") => set.status \in TransactionStatus
  /\ Has(set, "documentType") => set.documentType \in DocumentType
  /\ Has(set, "items") => ValidItems(set.items)
  /\ Has(set, "netAmount") => set.netAmount >= 0
  /\ Has(set, "taxAmount") => set.taxAmount >= 0
  /\ Has(set, "totalAmount") => set.totalAmount >= 0

\* A query that leaves the isDeleted filter out.
FindOneAny(docs, id, kind) == id \in 1..Len(docs) /\ docs[id].type = kind

\* Model.findOne({ _id: id, type: kind, isDeleted: false })
FindOne(docs, id, kind) ==
  id \in 1..Len(docs) /\ docs[id].type = kind /\ ~docs[id].isDeleted

\* A discriminator model's findByIdAndUpdate matches on _id and type only.
FindById(docs, id, kind) == id \in 1..Len(docs) /\ docs[id].type = kind

TaxRateOf(data) ==
  IF Has(data, "taxRate") /\ data.taxRate # 0 THEN data.taxRate ELSE DefaultTaxRate

ItemsOf(data) == IF Has(data, "items") THEN data.items ELSE <<>>

(***************************************************************************)
(* createQuotation, createSale, createPurchase.                            *)
(***************************************************************************)
BuildTransaction(docs, data, kind, prefix, defaultStatus) ==
  LET correlative == NextCorrelative(docs)
      taxRate == TaxRateOf(data)
      calculations == calculateTransactionAmounts(ItemsOf(data), data.documentType, taxRate)
  IN  Cast(Spread(data,
        [type           |-> kind,
         correlative    |-> correlative,
         documentNumber |-> DocumentNumber(prefix, correlative),
         items          |-> calculations.processedItems,
         netAmount      |-> calculations.netAmount,
         taxAmount      |-> calculations.taxAmount,
         totalAmount    |-> calculations.totalAmount,
         taxRate        |-> taxRate,
         status         |-> IF Has(data, "status") THEN data.status ELSE defaultStatus]))

CreateTransaction(docs, data, kind, prefix, defaultStatus, updates) ==
  IF ~Has(data, "documentType") THEN Fail("InvalidInput")
  ELSE IF data.documentType \notin DocumentType THEN Fail("InvalidInput")
  ELSE LET doc == BuildTransaction(docs, data, kind, prefix, defaultStatus)
       IN  IF ~ValidDocument(doc) THEN Fail("ValidationError") ELSE Done(<<doc>>, updates)

createQuotation(docs, quotationData) ==
  CreateTransaction(docs, quotationData, "quotation", "COT", "pending", <<>>)

createPurchase(docs, purchaseData) ==
  CreateTransaction(docs, purchaseData, "purchase", "COM", "pending", <<>>)

\* Quotation.findByIdAndUpdate(saleData.relatedQuotation, { status: CONVERTED })
MarkRelatedQuotation(docs, saleData) ==
  IF Has(saleData, "relatedQuotation") /\ saleData.relatedQuotation # NoRef
  THEN LET q == CHOOSE q \in saleData.relatedQuotation : TRUE
       IN  IF FindById(docs, q, "quotation")
           THEN <<[id |-> q, set |-> [status |-> "converted"]]>>
           ELSE <<>>
  ELSE <<>>

createSale(docs, saleData) ==
  CreateTransaction(docs, saleData, "sale", "VEN", "invoiced", MarkRelatedQuotation(docs, saleData))

(***************************************************************************)
(* updateQuotation, updateSale, updatePurchase.                            *)
(***************************************************************************)
QuotationEditable(status) == status = "pending"

\* A variant in which a paid sale can still be edited.
SaleEditableAlways(status) == status \in {"pending", "invoiced", "paid"}

SaleEditable(status) == status \in {"pending", "invoiced"}

PurchaseEditable(status) == status = "pending"

ProcessedData(doc, data) ==
  IF Has(data, "items") /\ Len(data.items) > 0
  THEN LET documentType == IF Has(data, "documentType") THEN data.documentType ELSE doc.documentType
           taxRate == IF Has(data, "taxRate") /\ data.taxRate # 0 THEN data.taxRate
                      ELSE IF doc.taxRate # 0 THEN doc.taxRate ELSE DefaultTaxRate
           calculations == calculateTransactionAmounts(data.items, documentType, taxRate)
       IN  Spread(data,
             [items       |-> calculations.processedItems,
              netAmount   |-> calculations.netAmount,
              taxAmount   |-> calculations.taxAmount,
              totalAmount |-> calculations.totalAmount,
              taxRate     |-> taxRate])
  ELSE data

UpdateTransaction(docs, id, data, kind, editable) ==
  IF ~FindOne(docs, id, kind) THEN Fail("NotFound")
  ELSE IF ~editable THEN Fail("InvalidState")
  ELSE IF Has(data, "documentType") /\ data.documentType \notin DocumentType THEN Fail("InvalidInput")
  ELSE LET set == Spread(ProcessedData(docs[id], data), [type |-> kind])
       IN  IF ~ValidUpdate(set) THEN Fail("ValidationError")
           ELSE Done(<<>>, <<[id |-> id, set |-> set]>>)

updateQuotation(docs, id, quotationData) ==
  UpdateTransaction(docs, id, quotationData, "quotation",
                    FindOne(docs, id, "quotation") /\ QuotationEditable(docs[id].status))

updateSale(docs, id, saleData) ==
  UpdateTransaction(docs, id, saleData, "sale",
                    FindOne(docs, id, "sale") /\ SaleEditable(docs[id].status))

updatePurchase(docs, id, purchaseData) ==
  UpdateTransaction(docs, id, purchaseData, "purchase",
                    FindOne(docs, id, "purchase") /\ PurchaseEditable(docs[id].status))

(***************************************************************************)
(* deleteQuotation, deleteSale, deletePurchase (soft delete).              *)
(***************************************************************************)
QuotationDeletable(status) == status = "pending"

SaleDeletable(status) == status = "pending"

PurchaseDeletable(status) == status = "pending"

DeleteTransaction(docs, id, kind, deletable) ==
  IF ~FindOne(docs, id, kind) THEN Fail("NotFound")
  ELSE IF ~deletable THEN Fail("InvalidState")
  ELSE Done(<<>>, <<[id |-> id, set |-> [isDeleted |-> TRUE]]>>)

deleteQuotation(docs, id) ==
  DeleteTransaction(docs, id, "quotation",
                    FindOne(docs, id, "quotation") /\ QuotationDeletable(docs[id].status))

deleteSale(docs, id) ==
  DeleteTransaction(docs, id, "sale",
                    FindOne(docs, id, "sale") /\ SaleDeletable(docs[id].status))

deletePurchase(docs, id) ==
  DeleteTransaction(docs, id, "purchase",
                    FindOne(docs, id, "purchase") /\ PurchaseDeletable(docs[id].status))

(***************************************************************************)
(* changeQuotationStatus, changeSaleStatus, changePurchaseStatus.  A       *)
(* validTransitions table is a JavaScript object: a status that is not one *)
(* of its keys yields undefined, and ?.includes() is then falsy.           *)
(***************************************************************************)
\* A variant in which a rejected quotation cannot be reopened.
QuotationTransitionsClosed ==
  [pending   |-> {"approved", "rejected"},
   approved  |-> {"converted", "rejected"},
   rejected  |-> {},
   converted |-> {}]

QuotationTransitions ==
  [pending   |-> {"approved", "rejected"},
   approved  |-> {"converted", "rejected"},
   rejected  |-> {"pending"},
   converted |-> {}]

SaleTransitions ==
  [pending  |-> {"invoiced"},
   invoiced |-> {"paid"},
   paid     |-> {}]

PurchaseTransitions ==
  [pending  |-> {"received", "rejected"},
   received |-> {},
   rejected |-> {}]

validTransitions(kind) ==
  CASE kind = "quotation" -> QuotationTransitions
    [] kind = "sale"      -> SaleTransitions
    [] kind = "purchase"  -> PurchaseTransitions

TransitionAllowed(kind, from, to) ==
  from \in DOMAIN validTransitions(kind) /\ to \in validTransitions(kind)[from]

ChangeStatus(docs, id, status, kind) ==
  IF ~FindOne(docs, id, kind) THEN Fail("NotFound")
  ELSE IF ~TransitionAllowed(kind, docs[id].status, status) THEN Fail("IllegalTransition")
  ELSE IF ~ValidUpdate([status |-> status]) THEN Fail("ValidationError")
  ELSE Done(<<>>, <<[id |-> id, set |-> [status |-> status]]>>)

changeQuotationStatus(docs, id, status) == ChangeStatus(docs, id, status, "quotation")

changeSaleStatus(docs, id, status) == ChangeStatus(docs, id, status, "sale")

changePurchaseStatus(docs, id, status) == ChangeStatus(docs, id, status, "purchase")

(***************************************************************************)
(* convertQuotationToSale of the sale service.                             *)
(***************************************************************************)
\* A variant that also converts a rejected quotation.
ConvertibleStatusLax(status) == status \in {"approved", "rejected"}

ConvertibleStatus(status) == status = "approved"

\* A variant that computes the sale's amounts again from the stored lines.
ConvertedSaleDataRecomputed(docs, quotationId) ==
  LET quotation == docs[quotationId]
      correlative == NextCorrelative(docs)
      calculations == calculateTransactionAmounts(quotation.items, quotation.documentType,
                                                  quotation.taxRate)
  IN  [type             |-> "sale",
       correlative      |-> correlative,
       documentNumber   |-> DocumentNumber("VEN", correlative),
       documentType     |-> quotation.documentType,
       counterparty     |-> quotation.counterparty,
       items            |-> calculations.processedItems,
       taxRate          |-> quotation.taxRate,
       netAmount        |-> calculations.netAmount,
       taxAmount        |-> calculations.taxAmount,
       totalAmount      |-> calculations.totalAmount,
       status           |-> "invoiced",
       relatedQuotation |-> Ref(quotationId)]

ConvertedSaleData(docs, quotationId) ==
  LET quotation == docs[quotationId]
      correlative == NextCorrelative(docs)
  IN  [type             |-> "sale",
       correlative      |-> correlative,
       documentNumber   |-> DocumentNumber("VEN", correlative),
       documentType     |-> quotation.documentType,
       counterparty     |-> quotation.counterparty,
       items            |-> quotation.items,
       taxRate          |-> quotation.taxRate,
       netAmount        |-> quotation.netAmount,
       taxAmount        |-> quotation.taxAmount,
       totalAmount      |-> quotation.totalAmount,
       status           |-> "invoiced",
       relatedQuotation |-> Ref(quotationId)]

convertQuotationToSale(docs, quotationId) ==
  IF ~FindOne(docs, quotationId, "quotation") THEN Fail("NotFound")
  ELSE IF ~ConvertibleStatus(docs[quotationId].status) THEN Fail("InvalidState")
  ELSE LET doc == Cast(ConvertedSaleData(docs, quotationId))
       IN  IF ~ValidDocument(doc) THEN Fail("ValidationError")
           ELSE Done(<<doc>>, <<[id |-> quotationId, set |-> [status |-> "converted"]]>>)

(***************************************************************************)
(* Writing an outcome to the collection.  documentNumber carries a unique  *)
(* index: an insert or update that would duplicate one fails (E11000),     *)
(* which aborts the session.                                               *)
(***************************************************************************)
SetFields(doc, set) ==
  [f \in DOMAIN doc |-> IF f \in DOMAIN set THEN set[f] ELSE doc[f]]

RECURSIVE ApplyUpdates(_, _)
ApplyUpdates(docs, updates) ==
  IF Len(updates) = 0 THEN docs
  ELSE ApplyUpdates([docs EXCEPT ![updates[1].id] = SetFields(@, updates[1].set)],
                    Tail(updates))

Written(docs, outcome) == ApplyUpdates(docs, outcome.updates) \o outcome.inserts

UniqueDocumentNumbers(docs) ==
  \A i, j \in 1..Len(docs) : i # j => docs[i].documentNumber # docs[j].documentNumber

\* The collection after the operation ran against it alone.
Commit(docs, outcome) ==
  IF outcome.ok /\ UniqueDocumentNumbers(Written(docs, outcome))
  THEN Written(docs, outcome)
  ELSE docs

Committed(docs, outcome) == outcome.ok /\ UniqueDocumentNumbers(Written(docs, outcome))

(***************************************************************************)
(* StockService.updateStock.  An item's stock is null (<<>>) or a number   *)
(* (<<n>>).  The call returns null for a missing or deleted item, leaves   *)
(* an item that is not inventoried alone, and throws when the new stock    *)
(* would be negative.                                                      *)
(***************************************************************************)
Null == <<>>

StockOf(item) == IF item.stock = Null THEN 0 ELSE item.stock[1]

ItemExists(its, itemId) == itemId \in DOMAIN its /\ ~its[itemId].isDeleted

\* A variant that clamps the new stock at zero.
NewStockClamped(item, quantity) == Max0(StockOf(item) + quantity)

NewStock(item, quantity) == StockOf(item) + quantity

InsufficientStock(item, quantity) == NewStock(item, quantity) < 0

\* What item.save() stores for an item read as `item`.
SavedStock(item, quantity) == <<NewStock(item, quantity)>>

\* Item.findById(itemId)
findById(its, itemId) == IF itemId \in DOMAIN its THEN <<its[itemId]>> ELSE Null

\* updateStock after its read: the checks on the document read and item.save(),
\* which stores the stock computed from that document.
saveStock(its, found, itemId, quantity) ==
  IF found = Null \/ found[1].isDeleted THEN [threw |-> FALSE, error |-> "null", items |-> its]
  ELSE IF ~found[1].isInventoried THEN [threw |-> FALSE, error |-> "", items |-> its]
  ELSE IF InsufficientStock(found[1], quantity)
       THEN [threw |-> TRUE, error |-> "InsufficientStock", items |-> its]
  ELSE [threw |-> FALSE, error |-> "",
        items |-> [its EXCEPT ![itemId].stock = SavedStock(found[1], quantity)]]

updateStock(its, itemId, quantity) == saveStock(its, findById(its, itemId), itemId, quantity)

\* for (const item of lines) await stockService.updateStock(product, sign * quantity)
RECURSIVE UpdateStockForLines(_, _, _)
UpdateStockForLines(its, lines, sign) ==
  IF Len(lines) = 0 THEN [threw |-> FALSE, items |-> its]
  ELSE LET r == updateStock(its, lines[1].product, sign * lines[1].quantity)
       IN  IF r.threw THEN r ELSE UpdateStockForLines(r.items, Tail(lines), sign)

\* The controllers' validation loop: every product exists, and an inventoried
\* one has at least the line's quantity in stock.
LineProblem(its, line) ==
  IF ~ItemExists(its, line.product) THEN "InvalidProduct"
  ELSE IF its[line.product].isInventoried /\ StockOf(its[line.product]) < line.quantity
       THEN "InsufficientStock"
       ELSE "none"

RECURSIVE LinesProblem(_, _)
LinesProblem(its, lines) ==
  IF Len(lines) = 0 THEN "none"
  ELSE IF LineProblem(its, lines[1]) # "none" THEN LineProblem(its, lines[1])
       ELSE LinesProblem(its, Tail(lines))

(***************************************************************************)
(* The denormalized generation: quotation controller and sale controller.  *)
(* Their session is started but no read or write is given it, so every     *)
(* write is stored at once and abortTransaction undoes nothing.  A handler *)
(* yields the collections it leaves behind and whether it answered 2xx.    *)
(***************************************************************************)
Answer(ok, error, qs, ss, its) ==
  [ok |-> ok, error |-> error, quotations |-> qs, sales |-> ss, items |-> its]

IsCustomer(cs, client) == client \in DOMAIN cs /\ cs[client].isCustomer

ValidLegacyLines(lines) ==
  \A i \in 1..Len(lines) :
    lines[i].quantity >= 1 /\ lines[i].unitPrice >= 0 /\ lines[i].discount >= 0

UniqueCorrelatives(docs) ==
  \A i, j \in 1..Len(docs) : i # j => docs[i].correlative # docs[j].correlative

\* Sale.findOne({ documentType }).sort({ documentNumber: -1 }): last + 1, or 1.
NextLegacyDocumentNumber(ss, documentType) ==
  LET same == {i \in 1..Len(ss) : ss[i].documentType = documentType}
  IN  IF same = {} THEN 1
      ELSE (CHOOSE n \in {ss[i].documentNumber : i \in same} :
              \A i \in same : ss[i].documentNumber <= n) + 1

\* quotationController.createQuotation
LegacyCreateQuotation(qs, ss, its, cs, body) ==
  IF ~IsCustomer(cs, body.client) THEN Answer(FALSE, "InvalidInput", qs, ss, its)
  ELSE IF \E i \in 1..Len(body.items) : ~ItemExists(its, body.items[i].product)
       THEN Answer(FALSE, "InvalidInput", qs, ss, its)
  ELSE LET doc == [correlative |-> NextCorrelative(qs),
                   client      |-> body.client,
                   items       |-> body.items,
                   netAmount   |-> body.netAmount,
                   taxAmount   |-> body.taxAmount,
                   totalAmount |-> body.totalAmount,
                   status      |-> "pending",
                   isDeleted   |-> IF Has(body, "isDeleted") THEN body.isDeleted ELSE FALSE]
       IN  IF ~ValidLegacyLines(doc.items) THEN Answer(FALSE, "ValidationError", qs, ss, its)
           ELSE Answer(TRUE, "", Append(qs, doc), ss, its)

\* quotationController.updateQuotation: findByIdAndUpdate(id, { ...req.body })
LegacyUpdateQuotation(qs, ss, its, id, body) ==
  IF ~(id \in 1..Len(qs) /\ ~qs[id].isDeleted) THEN Answer(FALSE, "NotFound", qs, ss, its)
  ELSE IF qs[id].status \in {"converted", "rejected"} THEN Answer(FALSE, "InvalidState", qs, ss, its)
  ELSE IF Has(body, "correlative") /\ body.correlative # qs[id].correlative
       THEN Answer(FALSE, "InvalidInput", qs, ss, its)
  ELSE IF (Has(body, "status") /\ body.status \notin QuotationStatus)
          \/ (Has(body, "items") /\ ~ValidLegacyLines(body.items))
       THEN Answer(FALSE, "ValidationError", qs, ss, its)
  ELSE Answer(TRUE, "", [qs EXCEPT ![id] = SetFields(@, body)], ss, its)

\* quotationController.deleteQuotation
LegacyDeleteQuotation(qs, ss, its, id) ==
  IF ~(id \in 1..Len(qs) /\ ~qs[id].isDeleted) THEN Answer(FALSE, "NotFound", qs, ss, its)
  ELSE IF qs[id].status = "converted" THEN Answer(FALSE, "InvalidState", qs, ss, its)
  ELSE Answer(TRUE, "", [qs EXCEPT ![id].isDeleted = TRUE], ss, its)

\* quotationController.convertToSale: the precondition on the status.
LegacyConvertibleStatus(status) == status \in {"pending", "approved"}

\* The sale convertToSale builds from the quotation.
LegacyConvertedSaleData(qs, ss, id, body) ==
  LET quotation == qs[id]
      documentType == IF Has(body, "documentType") THEN body.documentType ELSE "factura"
  IN  [correlative    |-> NextCorrelative(ss),
       documentType   |-> documentType,
       documentNumber |-> NextLegacyDocumentNumber(ss, documentType),
       client         |-> quotation.client,
       items          |-> quotation.items,
       netAmount      |-> quotation.netAmount,
       taxAmount      |-> quotation.taxAmount,
       totalAmount    |-> quotation.totalAmount,
       quotationRef   |-> Ref(id),
       isDeleted      |-> FALSE]

ValidLegacySale(doc) == doc.documentType \in DocumentType /\ ValidLegacyLines(doc.items)

LegacyConvertToSale(qs, ss, its, id, body) ==
  IF ~(id \in 1..Len(qs) /\ ~qs[id].isDeleted) THEN Answer(FALSE, "NotFound", qs, ss, its)
  ELSE IF ~LegacyConvertibleStatus(qs[id].status) THEN Answer(FALSE, "InvalidState", qs, ss, its)
  ELSE IF LinesProblem(its, qs[id].items) # "none"
       THEN Answer(FALSE, LinesProblem(its, qs[id].items), qs, ss, its)
  ELSE LET sale == LegacyConvertedSaleData(qs, ss, id, body)
       IN  IF ~ValidLegacySale(sale) THEN Answer(FALSE, "ValidationError", qs, ss, its)
           ELSE LET created == Append(ss, sale)                       \* Sale.create
                    stock == UpdateStockForLines(its, qs[id].items, -1)
                IN  IF stock.threw
                    THEN Answer(FALSE, "InsufficientStock", qs, created, stock.items)
                    ELSE Answer(TRUE, "", [qs EXCEPT ![id].status = "converted"],
                                created, stock.items)

\* saleController.createSale
LegacyCreateSale(qs, ss, its, cs, body) ==
  IF ~IsCustomer(cs, body.client) THEN Answer(FALSE, "InvalidInput", qs, ss, its)
  ELSE IF LinesProblem(its, body.items) # "none"
       THEN Answer(FALSE, LinesProblem(its, body.items), qs, ss, its)
  ELSE LET hasRef == Has(body, "quotationRef") /\ body.quotationRef # NoRef
           q == IF hasRef THEN CHOOSE q \in body.quotationRef : TRUE ELSE 0
       IN  IF hasRef /\ ~(q \in 1..Len(qs) /\ ~qs[q].isDeleted)
           THEN Answer(FALSE, "NotFound", qs, ss, its)
           ELSE LET marked == IF hasRef THEN [qs EXCEPT ![q].status = "converted"] ELSE qs
                    sale == [correlative    |-> NextCorrelative(ss),
                             documentType   |-> body.documentType,
                             documentNumber |-> NextLegacyDocumentNumber(ss, body.documentType),
                             client         |-> body.client,
                             items          |-> body.items,
                             netAmount      |-> body.netAmount,
                             taxAmount      |-> body.taxAmount,
                             totalAmount    |-> body.totalAmount,
                             quotationRef   |-> IF hasRef THEN body.quotationRef ELSE NoRef,
                             isDeleted      |-> IF Has(body, "isDeleted") THEN body.isDeleted ELSE FALSE]
                IN  IF ~ValidLegacySale(sale)
                    THEN Answer(FALSE, "ValidationError", marked, ss, its)
                    ELSE LET created == Append(ss, sale)
                             stock == UpdateStockForLines(its, body.items, -1)
                         IN  Answer(~stock.threw,
                                    IF stock.threw THEN "InsufficientStock" ELSE "",
                                    marked, created, stock.items)

\* saleController.updateSale: each new line is checked against the stock and
\* then taken from it, one line after the other.
RECURSIVE TakeLines(_, _)
TakeLines(its, lines) ==
  IF Len(lines) = 0 THEN [problem |-> "none", items |-> its]
  ELSE IF LineProblem(its, lines[1]) # "none"
       THEN [problem |-> LineProblem(its, lines[1]), items |-> its]
  ELSE LET r == updateStock(its, lines[1].product, -lines[1].quantity)
       IN  IF r.threw THEN [problem |-> r.error, items |-> r.items]
           ELSE TakeLines(r.items, Tail(lines))

\* Validators of Sale.findByIdAndUpdate(id, { ...req.body }, { runValidators: true })
ValidLegacySaleUpdate(body) ==
  /\ Has(body, "documentType") => body.documentType \in DocumentType
  /\ Has(body, "items") => ValidLegacyLines(body.items)

\* saleController.updateSale
LegacyUpdateSale(qs, ss, its, id, body) ==
  IF ~(id \in 1..Len(ss) /\ ~ss[id].isDeleted) THEN Answer(FALSE, "NotFound", qs, ss, its)
  ELSE IF Has(body, "correlative") /\ body.correlative # ss[id].correlative
       THEN Answer(FALSE, "InvalidInput", qs, ss, its)
  ELSE IF Has(body, "documentNumber") /\ body.documentNumber # ss[id].documentNumber
       THEN Answer(FALSE, "InvalidInput", qs, ss, its)
  ELSE LET restored == IF Has(body, "items") THEN UpdateStockForLines(its, ss[id].items, 1)
                       ELSE [threw |-> FALSE, items |-> its]
       IN  IF restored.threw THEN Answer(FALSE, "InsufficientStock", qs, ss, restored.items)
           ELSE LET taken == IF Has(body, "items") THEN TakeLines(restored.items, body.items)
                             ELSE [problem |-> "none", items |-> its]
                IN  IF taken.problem # "none"
                    THEN Answer(FALSE, taken.problem, qs, ss, taken.items)
                    ELSE IF ~ValidLegacySaleUpdate(body)
                         THEN Answer(FALSE, "ValidationError", qs, ss, taken.items)
                         ELSE Answer(TRUE, "", qs, [ss EXCEPT ![id] = SetFields(@, body)],
                                     taken.items)

\* saleController.deleteSale
LegacyDeleteSale(qs, ss, its, id) ==
  IF ~(id \in 1..Len(ss) /\ ~ss[id].isDeleted) THEN Answer(FALSE, "NotFound", qs, ss, its)
  ELSE LET stock == UpdateStockForLines(its, ss[id].items, 1)
       IN  IF stock.threw THEN Answer(FALSE, "InsufficientStock", qs, ss, stock.items)
           ELSE LET reverted ==
                      IF ss[id].quotationRef # NoRef
                      THEN LET q == CHOOSE q \in ss[id].quotationRef : TRUE
                           IN  IF q \in 1..Len(qs) THEN [qs EXCEPT ![q].status = "approved"] ELSE qs
                      ELSE qs
                IN  Answer(TRUE, "", reverted, [ss EXCEPT ![id].isDeleted = TRUE], stock.items)

(***************************************************************************)
(* Requests the model sends.  Item 1 is inventoried, item 2 is not;        *)
(* contact 1 is a customer, contact 2 a supplier.                          *)
(***************************************************************************)
Line(item, quantity, unitPrice, discount) ==
  [item |-> item, quantity |-> quantity, unitPrice |-> unitPrice, discount |-> discount]

Lines == <<Line(1, 3, 1000, 0), Line(2, 1, 500, 0)>>

Body(documentType, counterparty) ==
  [documentType |-> documentType, counterparty |-> Ref(counterparty), items |-> Lines]

QuotationBodies == {Body(dt, 1) : dt \in DocumentType}

PurchaseBodies == {Body("factura", 2), Spread(Body("factura", 2), [status |-> "approved"])}

SaleBodies ==
  {Body("factura", 1), Spread(Body("factura", 1), [status |-> "pending"])}
    \cup {Spread(Body("factura", 1), [relatedQuotation |-> Ref(q)]) : q \in 1..Len(transactions)}

UpdateBodies == {[items |-> <<Line(1, 2, 1000, 100)>>, status |-> "approved"]}

\* The ids a request may name: every stored document and one that does not exist.
Ids(docs) == 1..(Len(docs) + 1)

StatusInputs == TransactionStatus

(***************************************************************************)
(* Contacts.  A rut is a string, here the sequence of its characters.      *)
(* validateRut accepts 7 or 8 digits and a check digit, dots and hyphens   *)
(* ignored; the save and findOneAndUpdate hooks store a rut as body, hyphen *)
(* and upper-case check digit.  Nothing in the schema makes rut unique.    *)
(***************************************************************************)
Digit == [c \in {"0", "1", "2", "3", "4", "5", "6", "7", "8", "9"} |->
            CASE c = "0" -> 0 [] c = "1" -> 1 [] c = "2" -> 2 [] c = "3" -> 3 [] c = "4" -> 4
              [] c = "5" -> 5 [] c = "6" -> 6 [] c = "7" -> 7 [] c = "8" -> 8 [] c = "9" -> 9]

ToUpperCase(c) == IF c = "k" THEN "K" ELSE c

IsSeparator(c) == c \in {".", "-"}

\* rut.replace(/[.-]/g, '')
CleanRut(rut) == SelectSeq(rut, LAMBDA c : ~IsSeparator(c))

\* cleanRut.slice(0, -1)
RutBody(clean) == IF Len(clean) = 0 THEN <<>> ELSE SubSeq(clean, 1, Len(clean) - 1)

\* cleanRut.slice(-1).toUpperCase()
RutDv(clean) == IF Len(clean) = 0 THEN <<>> ELSE <<ToUpperCase(clean[Len(clean)])>>

\* The weighted sum of the body's digits, last digit first, weights 2..7.
RECURSIVE WeightedSum(_, _)
WeightedSum(body, multiplier) ==
  IF Len(body) = 0 THEN 0
  ELSE Digit[body[Len(body)]] * multiplier
         + WeightedSum(SubSeq(body, 1, Len(body) - 1),
                       IF multiplier = 7 THEN 2 ELSE multiplier + 1)

CalculatedDv(body) ==
  LET expectedDV == 11 - (WeightedSum(body, 2) % 11)
  IN  IF expectedDV = 11 THEN "0"
      ELSE IF expectedDV = 10 THEN "K"
      ELSE CHOOSE c \in DOMAIN Digit : Digit[c] = expectedDV

validateRut(rut) ==
  LET clean == CleanRut(rut)
  IN  /\ Len(clean) \in {8, 9}
      /\ \A i \in 1..(Len(clean) - 1) : clean[i] \in DOMAIN Digit
      /\ ToUpperCase(clean[Len(clean)]) \in (DOMAIN Digit) \cup {"K"}
      /\ <<CalculatedDv(RutBody(clean))>> = RutDv(clean)

normalizeRut(rut) ==
  IF Len(rut) = 0 THEN rut
  ELSE RutBody(CleanRut(rut)) \o <<"-">> \o RutDv(CleanRut(rut))

ContactAnswer(error, cs) == [error |-> error, contacts |-> cs]

\* Contact.findOne({ rut }): the stored rut is compared with the rut as sent.
WithRut(cs, rut) == {id \in 1..Len(cs) : cs[id].rut = rut}

\* Contact.create: defaults, validators, then the save hook.
NewContact(data) ==
  [rut        |-> normalizeRut(data.rut),
   isCustomer |-> Has(data, "isCustomer") /\ data.isCustomer,
   isSupplier |-> Has(data, "isSupplier") /\ data.isSupplier,
   isDeleted  |-> Has(data, "isDeleted") /\ data.isDeleted]

\* Contact.findByIdAndUpdate: the findOneAndUpdate hook, then $set.
UpdatedContact(doc, data) ==
  SetFields(doc, IF Has(data, "rut") /\ Len(data.rut) > 0
                 THEN Spread(data, [rut |-> normalizeRut(data.rut)]) ELSE data)

CreateValidated(cs, data) ==
  IF ~Has(data, "rut") \/ ~validateRut(data.rut) THEN ContactAnswer("ValidationError", cs)
  ELSE ContactAnswer("", Append(cs, NewContact(data)))

UpdateValidated(cs, id, data) ==
  IF Has(data, "rut") /\ ~validateRut(data.rut) THEN ContactAnswer("ValidationError", cs)
  ELSE ContactAnswer("", [cs EXCEPT ![id] = UpdatedContact(@, data)])

Truthy(body, f) == Has(body, f) /\ body[f]

createContact(cs, body) ==
  IF Has(body, "rut") /\ WithRut(cs, body.rut) # {}
  THEN LET existing == CHOOSE id \in WithRut(cs, body.rut) :
                         \A other \in WithRut(cs, body.rut) : id <= other
       IN  IF cs[existing].isDeleted
           THEN ContactAnswer("", [cs EXCEPT ![existing] =
                  UpdatedContact(@, Spread(body, [isDeleted  |-> FALSE,
                                                  isCustomer |-> Truthy(body, "isCustomer"),
                                                  isSupplier |-> Truthy(body, "isSupplier")]))])
           ELSE ContactAnswer("Conflict", cs)
  ELSE IF ~Truthy(body, "isCustomer") /\ ~Truthy(body, "isSupplier")
       THEN ContactAnswer("InvalidInput", cs)
  ELSE CreateValidated(cs, body)

\* The rut check createClient, updateContact and updateClient share.
RutTaken(cs, body, self) ==
  /\ Has(body, "rut")
  /\ Len(body.rut) > 0
  /\ WithRut(cs, body.rut) \ self # {}

updateContact(cs, id, body) ==
  IF RutTaken(cs, body, {id}) THEN ContactAnswer("Conflict", cs)
  ELSE IF Has(body, "isCustomer") /\ ~body.isCustomer
          /\ Has(body, "isSupplier") /\ ~body.isSupplier
       THEN ContactAnswer("InvalidInput", cs)
  ELSE IF ~(id \in 1..Len(cs) /\ ~cs[id].isDeleted) THEN ContactAnswer("NotFound", cs)
  ELSE UpdateValidated(cs, id, body)

createClient(cs, body) ==
  IF Has(body, "rut") /\ WithRut(cs, body.rut) # {} THEN ContactAnswer("Conflict", cs)
  ELSE CreateValidated(cs, Spread(body, [isCustomer |-> TRUE]))

updateClient(cs, id, body) ==
  IF RutTaken(cs, body, {id}) THEN ContactAnswer("Conflict", cs)
  ELSE IF ~(id \in 1..Len(cs) /\ cs[id].isCustomer /\ ~cs[id].isDeleted)
       THEN ContactAnswer("NotFound", cs)
  ELSE UpdateValidated(cs, id, Spread(body, [isCustomer |-> TRUE]))

deleteClient(cs, id) ==
  IF ~(id \in 1..Len(cs) /\ cs[id].isCustomer /\ ~cs[id].isDeleted)
  THEN ContactAnswer("NotFound", cs)
  ELSE IF cs[id].isSupplier
       THEN ContactAnswer("", [cs EXCEPT ![id] = SetFields(@, [isCustomer |-> FALSE])])
       ELSE ContactAnswer("", [cs EXCEPT ![id] = SetFields(@, [isDeleted |-> TRUE])])

deleteSupplier(cs, id) ==
  IF ~(id \in 1..Len(cs) /\ cs[id].isSupplier /\ ~cs[id].isDeleted)
  THEN ContactAnswer("NotFound", cs)
  ELSE ContactAnswer("", [cs EXCEPT ![id] = SetFields(@, [isDeleted |-> TRUE])])

\* Three taxpayers, and the forms in which a client may send their ruts.
Rut1 == <<"1", "0", "0", "0", "0", "0", "0", "-", "9">>

Rut2 == <<"2", "0", "0", "0", "0", "0", "0", "-", "7">>

Rut3 == <<"1", "0", "0", "0", "0", "0", "5", "-", "K">>

Rut3Dotted == <<"1", ".", "0", "0", "0", ".", "0", "0", "5", "-", "k">>

Rut1Dotted == <<"1", ".", "0", "0", "0", ".", "0", "0", "0", "-", "9">>

(***************************************************************************)
(* Initial state: empty transaction collections, two items, two contacts.  *)
(***************************************************************************)
Idle == [op |-> "idle"]

NoRequest == [op |-> "none", error |-> ""]

InitDatabase ==
  /\ transactions = <<>>
  /\ quotations = <<>>
  /\ sales = <<>>
  /\ items = [i \in {1, 2} |->
                IF i = 1 THEN [stock |-> <<InitStock>>, isInventoried |-> TRUE, isDeleted |-> FALSE]
                ELSE [stock |-> Null, isInventoried |-> FALSE, isDeleted |-> FALSE]]
  /\ contacts = <<[rut |-> Rut1, isCustomer |-> TRUE, isSupplier |-> FALSE,
                    isDeleted |-> FALSE],
                   [rut |-> Rut2, isCustomer |-> FALSE, isSupplier |-> TRUE,
                    isDeleted |-> FALSE]>>
  /\ logs = <<>>
  /\ sessions = [p \in 1..MaxProc |-> Idle]
  /\ stockCalls = [p \in 1..MaxProc |-> Idle]
  /\ stockLog = [returned |-> 0, applied |-> [i \in {1, 2} |-> 0]]

InitData == InitDatabase /\ last = NoRequest

Init == revision \in {"normalized", "denormalized"} /\ InitData

(***************************************************************************)
(* Requests served one at a time.  A service operation runs in a session   *)
(* whose reads and writes touch the documents it changes, so a request     *)
(* that commits has seen the state it writes to; the interleavings of the  *)
(* correlative read are the subject of SpecSessions below.  A request that *)
(* is refused aborts its session and leaves every variable as it was.      *)
(***************************************************************************)
Serve(op, id, outcome) ==
  /\ revision = "normalized"
  /\ transactions' = Commit(transactions, outcome)
  /\ last' = IF Committed(transactions, outcome) THEN [op |-> op, error |-> ""] ELSE last
  /\ UNCHANGED <<logs, revision, quotations, sales, items, contacts, sessions, stockCalls,
               stockLog>>

CreateQuotation ==
  \E body \in QuotationBodies :
    /\ Len(transactions) < MaxTx
    /\ Serve("createQuotation", Len(transactions) + 1, createQuotation(transactions, body))

CreateSale ==
  \E body \in SaleBodies :
    /\ Len(transactions) < MaxTx
    /\ Serve("createSale", Len(transactions) + 1, createSale(transactions, body))

CreatePurchase ==
  \E body \in PurchaseBodies :
    /\ Len(transactions) < MaxTx
    /\ Serve("createPurchase", Len(transactions) + 1, createPurchase(transactions, body))

UpdateQuotation ==
  \E id \in Ids(transactions), body \in UpdateBodies :
    Serve("updateQuotation", id, updateQuotation(transactions, id, body))

UpdateSale ==
  \E id \in Ids(transactions), body \in UpdateBodies :
    Serve("updateSale", id, updateSale(transactions, id, body))

UpdatePurchase ==
  \E id \in Ids(transactions), body \in UpdateBodies :
    Serve("updatePurchase", id, updatePurchase(transactions, id, body))

DeleteQuotation ==
  \E id \in Ids(transactions) : Serve("deleteQuotation", id, deleteQuotation(transactions, id))

DeleteSale ==
  \E id \in Ids(transactions) : Serve("deleteSale", id, deleteSale(transactions, id))

DeletePurchase ==
  \E id \in Ids(transactions) : Serve("deletePurchase", id, deletePurchase(transactions, id))

ChangeQuotationStatus ==
  \E id \in Ids(transactions), status \in StatusInputs :
    Serve("changeQuotationStatus", id, changeQuotationStatus(transactions, id, status))

ChangeSaleStatus ==
  \E id \in Ids(transactions), status \in StatusInputs :
    Serve("changeSaleStatus", id, changeSaleStatus(transactions, id, status))

ChangePurchaseStatus ==
  \E id \in Ids(transactions), status \in StatusInputs :
    Serve("changePurchaseStatus", id, changePurchaseStatus(transactions, id, status))

ConvertQuotationToSale ==
  \E id \in Ids(transactions) :
    /\ Len(transactions) < MaxTx
    /\ Serve("convertQuotationToSale", id, convertQuotationToSale(transactions, id))

NextNormalized ==
  \/ CreateQuotation \/ CreateSale \/ CreatePurchase
  \/ UpdateQuotation \/ UpdateSale \/ UpdatePurchase
  \/ DeleteQuotation \/ DeleteSale \/ DeletePurchase
  \/ ChangeQuotationStatus \/ ChangeSaleStatus \/ ChangePurchaseStatus
  \/ ConvertQuotationToSale

(***************************************************************************)
(* Requests to the denormalized generation, served one at a time.          *)
(***************************************************************************)
LegacyLine(product, quantity, unitPrice) ==
  [product |-> product, quantity |-> quantity, unitPrice |-> unitPrice,
   discount |-> 0, subtotal |-> quantity * unitPrice]

LegacyBody(lines) ==
  [client      |-> 1,
   items       |-> lines,
   netAmount   |-> SumSubtotals(lines),
   taxAmount   |-> RoundDiv(SumSubtotals(lines) * DefaultTaxRate, 100),
   totalAmount |-> SumSubtotals(lines) + RoundDiv(SumSubtotals(lines) * DefaultTaxRate, 100)]

\* A quotation for the whole stock, and one whose two lines each fit the stock
\* but not together.
LegacyQuotationBodies ==
  {LegacyBody(<<LegacyLine(1, InitStock, 1000), LegacyLine(2, 1, 500)>>),
   LegacyBody(<<LegacyLine(1, InitStock - 2, 1000), LegacyLine(1, InitStock - 2, 1000)>>)}

LegacyUpdateBodies == {[status |-> "approved"], [status |-> "rejected"]}

LegacyConvertBodies == {<<>>}

LegacySaleBodies ==
  {Spread(LegacyBody(<<LegacyLine(1, 2, 1000)>>), [documentType |-> "factura"])}
    \cup {Spread(LegacyBody(<<LegacyLine(1, 2, 1000)>>),
                 [documentType |-> "factura", quotationRef |-> Ref(q)]) : q \in 1..Len(quotations)}

\* An update that fits the stock and one that asks for more than there is.
LegacySaleUpdateBodies ==
  {[items |-> <<LegacyLine(1, 1, 1000)>>], [items |-> <<LegacyLine(1, InitStock + 1, 1000)>>]}

\* The handlers pass no session to their writes: what a handler wrote before
\* it answered an error stays written.
Wrote(answer) ==
  answer.quotations # quotations \/ answer.sales # sales \/ answer.items # items

Handle(op, answer) ==
  /\ revision = "denormalized"
  /\ quotations' = answer.quotations
  /\ sales' = answer.sales
  /\ items' = answer.items
  /\ last' = IF answer.error = "" \/ Wrote(answer)
             THEN [op |-> op, error |-> answer.error] ELSE last
  /\ UNCHANGED <<logs, revision, transactions, contacts, sessions, stockCalls, stockLog>>

CreateLegacyQuotation ==
  \E body \in LegacyQuotationBodies :
    /\ Len(quotations) + Len(sales) < MaxTx
    /\ Handle("createQuotation", LegacyCreateQuotation(quotations, sales, items, contacts, body))

UpdateLegacyQuotation ==
  \E id \in Ids(quotations), body \in LegacyUpdateBodies :
    Handle("updateQuotation", LegacyUpdateQuotation(quotations, sales, items, id, body))

DeleteLegacyQuotation ==
  \E id \in Ids(quotations) :
    Handle("deleteQuotation", LegacyDeleteQuotation(quotations, sales, items, id))

ConvertToSale ==
  \E id \in Ids(quotations), body \in LegacyConvertBodies :
    /\ Len(quotations) + Len(sales) < MaxTx
    /\ Handle("convertToSale", LegacyConvertToSale(quotations, sales, items, id, body))

CreateLegacySale ==
  \E body \in LegacySaleBodies :
    /\ Len(quotations) + Len(sales) < MaxTx
    /\ Handle("createSale", LegacyCreateSale(quotations, sales, items, contacts, body))

UpdateLegacySale ==
  \E id \in Ids(sales), body \in LegacySaleUpdateBodies :
    Handle("updateSale", LegacyUpdateSale(quotations, sales, items, id, body))

DeleteLegacySale ==
  \E id \in Ids(sales) :
    Handle("deleteSale", LegacyDeleteSale(quotations, sales, items, id))

NextDenormalized ==
  \/ CreateLegacyQuotation \/ UpdateLegacyQuotation \/ DeleteLegacyQuotation
  \/ ConvertToSale \/ CreateLegacySale \/ UpdateLegacySale \/ DeleteLegacySale

Next == NextNormalized \/ NextDenormalized

Spec == Init /\ [][Next]_vars

(***************************************************************************)
(* Service operations in flight at the same time.  A session reads from    *)
(* the snapshot taken at its first read; at commit its inserts join the    *)
(* collection as it is then, a document it updates must not have been      *)
(* written since the snapshot, and the unique index on documentNumber is   *)
(* checked against the collection as it is then.                           *)
(***************************************************************************)
Request(op, id, body, status) == [op |-> op, id |-> id, body |-> body, status |-> status]

SessionRequests ==
  {Request("createQuotation", 0, Body("factura", 1), ""),
   Request("createSale", 0, Body("factura", 1), ""),
   Request("createPurchase", 0, Body("factura", 2), "")}
    \cup {Request("changeQuotationStatus", id, <<>>, st) :
            id \in 1..Len(transactions), st \in {"approved", "rejected"}}
    \cup {Request("convertQuotationToSale", id, <<>>, "") : id \in 1..Len(transactions)}

Creates(request) == request.op \in {"createQuotation", "createSale", "createPurchase",
                                    "convertQuotationToSale"}

Run(docs, request) ==
  CASE request.op = "createQuotation"        -> createQuotation(docs, request.body)
    [] request.op = "createSale"             -> createSale(docs, request.body)
    [] request.op = "createPurchase"         -> createPurchase(docs, request.body)
    [] request.op = "changeQuotationStatus"  ->
         changeQuotationStatus(docs, request.id, request.status)
    [] request.op = "convertQuotationToSale" -> convertQuotationToSale(docs, request.id)
    [] request.op = "updateQuotation"        -> updateQuotation(docs, request.id, request.body)
    [] request.op = "updateSale"             -> updateSale(docs, request.id, request.body)
    [] request.op = "updatePurchase"         -> updatePurchase(docs, request.id, request.body)
    [] request.op = "deleteQuotation"        -> deleteQuotation(docs, request.id)
    [] request.op = "deleteSale"             -> deleteSale(docs, request.id)
    [] request.op = "deletePurchase"         -> deletePurchase(docs, request.id)
    [] request.op = "changeSaleStatus"       -> changeSaleStatus(docs, request.id, request.status)
    [] request.op = "changePurchaseStatus"   ->
         changePurchaseStatus(docs, request.id, request.status)

InFlight == {p \in 1..MaxProc : sessions[p] # Idle}

WriteConflict(snapshot, docs, outcome) ==
  \E i \in 1..Len(outcome.updates) : docs[outcome.updates[i].id] # snapshot[outcome.updates[i].id]

SessionCommits(snapshot, docs, outcome) ==
  /\ outcome.ok
  /\ ~WriteConflict(snapshot, docs, outcome)
  /\ UniqueDocumentNumbers(Written(docs, outcome))

StartSession(p) ==
  \E request \in SessionRequests :
    /\ revision = "normalized"
    /\ sessions[p] = Idle
    /\ Creates(request) =>
         Len(transactions) + Cardinality({q \in InFlight : Creates(sessions[q].request)}) < MaxTx
    /\ sessions' = [sessions EXCEPT ![p] = [op |-> "open", request |-> request,
                                            snapshot |-> transactions]]
    /\ UNCHANGED <<logs, revision, transactions, quotations, sales, items, contacts, stockCalls,
                   stockLog, last>>

CommitSession(p) ==
  /\ sessions[p] # Idle
  /\ LET outcome == Run(sessions[p].snapshot, sessions[p].request)
         commits == SessionCommits(sessions[p].snapshot, transactions, outcome)
     IN  /\ transactions' = IF commits THEN Written(transactions, outcome) ELSE transactions
         /\ last' = [op    |-> sessions[p].request.op,
                     error |-> IF ~outcome.ok THEN outcome.error
                               ELSE IF commits THEN "" ELSE "Conflict"]
  /\ sessions' = [sessions EXCEPT ![p] = Idle]
  /\ UNCHANGED <<logs, revision, quotations, sales, items, contacts, stockCalls, stockLog>>

NextSessions == \E p \in 1..MaxProc : StartSession(p) \/ CommitSession(p)

InitSessions == revision = "normalized" /\ InitData

SpecSessions == InitSessions /\ [][NextSessions]_vars

(***************************************************************************)
(* Stock adjustments in flight at the same time.  The controllers of the   *)
(* denormalized generation await updateStock line by line, and two         *)
(* requests interleave at every await: between a call's Item.findById and  *)
(* its item.save() another call may read or write the same item.  The      *)
(* purchase controller adds to the stock with one $inc.                    *)
(***************************************************************************)
StockQuantities == {-3, -2, 2}

ItemIds == {1, 2, 3}

CallsStarted == stockLog.returned + Cardinality({p \in 1..MaxProc : stockCalls[p] # Idle})

Returned(itemId, quantity, applied) ==
  [returned |-> stockLog.returned + 1,
   applied  |-> IF applied
                THEN [stockLog.applied EXCEPT ![itemId] = @ + quantity]
                ELSE stockLog.applied]

\* updateStock up to the answer of Item.findById
FindItem(p) ==
  \E itemId \in ItemIds, quantity \in StockQuantities :
    /\ revision = "denormalized"
    /\ stockCalls[p] = Idle
    /\ CallsStarted < MaxCalls
    /\ stockCalls' = [stockCalls EXCEPT ![p] = [op |-> "updateStock", itemId |-> itemId,
                                                quantity |-> quantity,
                                                found |-> findById(items, itemId)]]
    /\ UNCHANGED <<logs, revision, transactions, quotations, sales, items, contacts, sessions,
                   stockLog, last>>

\* updateStock from the answer of Item.findById to its return
SaveItem(p) ==
  /\ stockCalls[p] # Idle
  /\ LET call == stockCalls[p]
         r == saveStock(items, call.found, call.itemId, call.quantity)
     IN  /\ items' = r.items
         /\ stockLog' = Returned(call.itemId, call.quantity, r.items # items)
         /\ last' = [op |-> "updateStock", error |-> r.error]
  /\ stockCalls' = [stockCalls EXCEPT ![p] = Idle]
  /\ UNCHANGED <<logs, revision, transactions, quotations, sales, contacts, sessions>>

\* Item.findByIdAndUpdate(productId, { $inc: { stock: quantity } })
IncrementStock ==
  \E itemId \in ItemIds :
    /\ revision = "denormalized"
    /\ CallsStarted < MaxCalls
    /\ LET applies == itemId \in DOMAIN items /\ items[itemId].stock # Null
       IN  /\ items' = IF applies
                       THEN [items EXCEPT ![itemId].stock = <<StockOf(items[itemId]) + 2>>]
                       ELSE items
           /\ stockLog' = Returned(itemId, 2, applies)
           /\ last' = [op |-> "incrementStock", error |-> IF applies THEN "" ELSE "null"]
    /\ UNCHANGED <<logs, revision, transactions, quotations, sales, contacts, sessions,
                   stockCalls>>

NextStock == IncrementStock \/ \E p \in 1..MaxProc : FindItem(p) \/ SaveItem(p)

InitStockCalls == revision = "denormalized" /\ InitData

SpecStock == InitStockCalls /\ [][NextStock]_vars

(***************************************************************************)
(* Properties.                                                             *)
(***************************************************************************)
Existing(kind, id) ==
  /\ id \in 1..Len(transactions)
  /\ transactions[id].type = kind
  /\ ~transactions[id].isDeleted

AllIdle == \A p \in 1..MaxProc : sessions[p] = Idle /\ stockCalls[p] = Idle

\* C1: whatever the interleaving of concurrent createQuotation, createSale,
\* createPurchase and convertQuotationToSale sessions, no two committed
\* transaction records, of any kind, carry the same correlative.
NoSharedCorrelative == UniqueCorrelatives(transactions)

\* The transition table as the specification states it.
StatusTable ==
  [quotation |-> [pending   |-> {"approved", "rejected"},
                  approved  |-> {"converted", "rejected"},
                  rejected  |-> {"pending"},
                  converted |-> {}],
   sale      |-> [pending  |-> {"invoiced"},
                  invoiced |-> {"paid"},
                  paid     |-> {}],
   purchase  |-> [pending  |-> {"received", "rejected"},
                  received |-> {},
                  rejected |-> {}]]

InTable(kind, from, to) ==
  from \in DOMAIN StatusTable[kind] /\ to \in StatusTable[kind][from]

changeStatus(kind, id, status) ==
  CASE kind = "quotation" -> changeQuotationStatus(transactions, id, status)
    [] kind = "sale"      -> changeSaleStatus(transactions, id, status)
    [] kind = "purchase"  -> changePurchaseStatus(transactions, id, status)

\* C2: a change of status on a stored, not deleted transaction succeeds and
\* stores the target status, and nothing else, exactly when (current status,
\* target status) is in the table of its kind; every other pair fails and
\* leaves the collection as it was.
ChangeStatusFollowsTable ==
  \A kind \in TransactionType, id \in 1..Len(transactions), status \in StatusInputs :
    Existing(kind, id) =>
      LET outcome == changeStatus(kind, id, status)
      IN  IF InTable(kind, transactions[id].status, status)
          THEN /\ Committed(transactions, outcome)
               /\ Commit(transactions, outcome) = [transactions EXCEPT ![id].status = status]
          ELSE /\ ~Committed(transactions, outcome)
               /\ Commit(transactions, outcome) = transactions

\* A change of status was stored: the only record is a quotation, now rejected.
StatusChanged ==
  /\ last = [op |-> "changeQuotationStatus", error |-> ""]
  /\ Len(transactions) = 1
  /\ Existing("quotation", 1)
  /\ transactions[1].status = "rejected"

StockNonNegative ==
  \A i \in DOMAIN items : items[i].stock = Null \/ items[i].stock[1] >= 0

\* C3: the stock of an item is never negative, and an updateStock call whose
\* quantity would take the stock it read (null counted as 0) below zero fails
\* with an insufficient-stock error and leaves the stored stock as it was:
\* it is not clamped to zero.
StockNeverNegativeNorClamped ==
  /\ []StockNonNegative
  /\ [][\A p \in 1..MaxProc :
          (/\ stockCalls[p] # Idle
           /\ SaveItem(p)
           /\ stockCalls[p].found # Null
           /\ stockCalls[p].found[1].isInventoried
           /\ StockOf(stockCalls[p].found[1]) + stockCalls[p].quantity < 0)
            => last'.error = "InsufficientStock" /\ items' = items]_vars

\* An updateStock call for more than the stock was refused.
OverdrawRefused ==
  /\ last = [op |-> "updateStock", error |-> "InsufficientStock"]
  /\ StockOf(items[1]) < 3

\* C4: once every concurrent stock adjustment has returned, the stock of an
\* inventoried item is its initial stock plus the quantities of the
\* adjustments that succeeded.
NoLostUpdate ==
  AllIdle => \A i \in DOMAIN items :
               items[i].isInventoried => StockOf(items[i]) = InitStock + stockLog.applied[i]

ConvertRequest(id) ==
  Serve("convertQuotationToSale", id, convertQuotationToSale(transactions, id))

LegacyConvertRequest(id, body) ==
  Handle("convertToSale", LegacyConvertToSale(quotations, sales, items, id, body))

StoredQuotation(id) == id \in 1..Len(quotations) /\ ~quotations[id].isDeleted

\* C5: a conversion that fails leaves no new sale, the quotation as it was and
\* the stock as it was.
ConversionAtomic ==
  [][/\ last'.op = "convertQuotationToSale" /\ last'.error # "" =>
          /\ transactions' = transactions
          /\ items' = items
     /\ last'.op = "convertToSale" /\ last'.error # "" =>
          /\ sales' = sales
          /\ quotations' = quotations
          /\ items' = items]_vars

\* C6: a conversion succeeds only on a stored, not deleted quotation whose
\* status is approved (the controller of the denormalized generation also
\* takes pending); on a converted or rejected quotation it fails and creates
\* no sale.
ConversionPreconditions ==
  /\ \A id \in Ids(transactions) :
       LET outcome == convertQuotationToSale(transactions, id)
       IN  /\ Committed(transactions, outcome) =>
                Existing("quotation", id) /\ transactions[id].status = "approved"
           /\ (Existing("quotation", id)
                 /\ transactions[id].status \in {"converted", "rejected"}) =>
                /\ ~Committed(transactions, outcome)
                /\ Commit(transactions, outcome) = transactions
  /\ \A id \in Ids(quotations), body \in LegacyConvertBodies :
       LET answer == LegacyConvertToSale(quotations, sales, items, id, body)
       IN  /\ answer.error = "" =>
                StoredQuotation(id) /\ quotations[id].status \in {"pending", "approved"}
           /\ (StoredQuotation(id) /\ quotations[id].status \in {"converted", "rejected"}) =>
                answer.error # "" /\ answer.sales = sales

\* The sale service has converted an approved quotation, which is now
\* converted and which it refuses to convert again.
ConvertedOnce ==
  /\ last = [op |-> "convertQuotationToSale", error |-> ""]
  /\ \E id \in 1..Len(transactions) :
       /\ Existing("quotation", id)
       /\ transactions[id].status = "converted"
       /\ ~convertQuotationToSale(transactions, id).ok

CopiedFields ==
  {"documentType", "counterparty", "items", "taxRate", "netAmount", "taxAmount", "totalAmount"}

LegacyCopiedFields == {"client", "items", "netAmount", "taxAmount", "totalAmount"}

Fresh(docs, doc) ==
  \A i \in 1..Len(docs) :
    doc.correlative # docs[i].correlative /\ doc.documentNumber # docs[i].documentNumber

RECURSIVE Quantity(_, _, _)
Quantity(lines, field, i) ==
  IF Len(lines) = 0 THEN 0
  ELSE (IF lines[1][field] = i THEN lines[1].quantity ELSE 0) + Quantity(Tail(lines), field, i)

\* The items after the stock of every inventoried item of the lines moved by
\* sign * quantity; other items untouched.
Adjusted(its, lines, field, sign) ==
  [i \in DOMAIN its |->
     IF its[i].isInventoried /\ Quantity(lines, field, i) > 0
     THEN [its[i] EXCEPT !.stock = <<StockOf(its[i]) + sign * Quantity(lines, field, i)>>]
     ELSE its[i]]

Overdraws(its, lines, field) ==
  \E i \in DOMAIN its : its[i].isInventoried /\ Quantity(lines, field, i) > StockOf(its[i])

\* C8: a successful conversion takes each line's quantity from the stock of
\* its inventoried item and leaves other items alone; a conversion of a
\* quotation that asks for more than the stock fails with insufficient stock
\* and leaves the quotation's status as it was.
ConversionAdjustsStock ==
  [][/\ last'.op = "convertQuotationToSale" =>
          \A id \in 1..Len(transactions) :
            (Existing("quotation", id) /\ ConvertRequest(id)) =>
              /\ last'.error = "" =>
                   items' = Adjusted(items, transactions[id].items, "item", -1)
              /\ (transactions[id].status = "approved"
                    /\ Overdraws(items, transactions[id].items, "item")) =>
                   last'.error = "InsufficientStock" /\ transactions'[id].status = "approved"
     /\ last'.op = "convertToSale" =>
          \A id \in 1..Len(quotations), body \in LegacyConvertBodies :
            (StoredQuotation(id) /\ LegacyConvertRequest(id, body)) =>
              /\ last'.error = "" =>
                   items' = Adjusted(items, quotations[id].items, "product", -1)
              /\ (quotations[id].status = "approved"
                    /\ Overdraws(items, quotations[id].items, "product")) =>
                   last'.error = "InsufficientStock" /\ quotations'[id].status = "approved"]_vars

\* The statuses in which the specification lets a record be updated or deleted.
Gate ==
  [quotation |-> [update |-> {"pending"}, delete |-> {"pending"}],
   sale      |-> [update |-> {"pending", "invoiced"}, delete |-> {"pending"}],
   purchase  |-> [update |-> {"pending"}, delete |-> {"pending"}]]

update(kind, id, body) ==
  CASE kind = "quotation" -> updateQuotation(transactions, id, body)
    [] kind = "sale"      -> updateSale(transactions, id, body)
    [] kind = "purchase"  -> updatePurchase(transactions, id, body)

delete(kind, id) ==
  CASE kind = "quotation" -> deleteQuotation(transactions, id)
    [] kind = "sale"      -> deleteSale(transactions, id)
    [] kind = "purchase"  -> deletePurchase(transactions, id)

UpdateRequest(kind, id, body) ==
  CASE kind = "quotation" -> Serve("updateQuotation", id, update(kind, id, body))
    [] kind = "sale"      -> Serve("updateSale", id, update(kind, id, body))
    [] kind = "purchase"  -> Serve("updatePurchase", id, update(kind, id, body))

DeleteRequest(kind, id) ==
  CASE kind = "quotation" -> Serve("deleteQuotation", id, deleteQuotation(transactions, id))
    [] kind = "sale"      -> Serve("deleteSale", id, deleteSale(transactions, id))
    [] kind = "purchase"  -> Serve("deletePurchase", id, deletePurchase(transactions, id))

\* C9: the services update or delete a quotation or a purchase only while it
\* is pending, update a sale only while it is pending or invoiced and delete
\* a sale only while it is pending; in any other status the request fails and
\* the collection is left as it was.
EditGatedByStatus ==
  \A kind \in TransactionType, id \in 1..Len(transactions) :
    Existing(kind, id) =>
      /\ \A body \in UpdateBodies :
           LET outcome == update(kind, id, body)
               after   == Commit(transactions, outcome)
           IN  IF transactions[id].status \in Gate[kind].update
               THEN Committed(transactions, outcome) => after[id] # transactions[id]
               ELSE ~Committed(transactions, outcome) /\ after = transactions
      /\ LET outcome == delete(kind, id)
             after   == Commit(transactions, outcome)
         IN  IF transactions[id].status \in Gate[kind].delete
             THEN Committed(transactions, outcome) => after[id].isDeleted
             ELSE ~Committed(transactions, outcome) /\ after = transactions

\* An update took a pending quotation to approved, where the service refuses
\* to update or delete it.
EditedOutOfGate ==
  /\ last = [op |-> "updateQuotation", error |-> ""]
  /\ \E id \in 1..Len(transactions) :
       /\ Existing("quotation", id)
       /\ transactions[id].status = "approved"
       /\ \A body \in UpdateBodies : ~updateQuotation(transactions, id, body).ok
       /\ ~deleteQuotation(transactions, id).ok

LegacyDeleteSaleRequest(id) ==
  Handle("deleteSale", LegacyDeleteSale(quotations, sales, items, id))

\* C10: deleting a pending sale gives each line's quantity back to the stock
\* of its inventoried item and sets the related quotation, if there is one,
\* back to approved.
DeleteSaleRestores ==
  [][/\ (revision = "normalized" /\ last'.op = "deleteSale" /\ last'.error = "") =>
          \A id \in 1..Len(transactions) :
            (Existing("sale", id) /\ transactions[id].status = "pending"
               /\ DeleteRequest("sale", id)) =>
              /\ items' = Adjusted(items, transactions[id].items, "item", 1)
              /\ \A q \in transactions[id].relatedQuotation :
                   q \in 1..Len(transactions) => transactions'[q].status = "approved"
     /\ (revision = "denormalized" /\ last'.op = "deleteSale" /\ last'.error = "") =>
          \A id \in 1..Len(sales) :
            (~sales[id].isDeleted /\ LegacyDeleteSaleRequest(id)) =>
              /\ items' = Adjusted(items, sales[id].items, "product", 1)
              /\ \A q \in sales[id].quotationRef :
                   q \in 1..Len(quotations) => quotations'[q].status = "approved"]_vars

CreateRequest(kind, body) ==
  CASE kind = "quotation" ->
         Serve("createQuotation", Len(transactions) + 1, createQuotation(transactions, body))
    [] kind = "sale" ->
         Serve("createSale", Len(transactions) + 1, createSale(transactions, body))
    [] kind = "purchase" ->
         Serve("createPurchase", Len(transactions) + 1, createPurchase(transactions, body))

LegacyCreateSaleRequest(body) ==
  Handle("createSale", LegacyCreateSale(quotations, sales, items, contacts, body))

\* C11: a creation that succeeds moves the stock of every inventoried item of
\* its lines: a sale takes each line's quantity from it, a purchase adds it,
\* and a quotation leaves every stock as it was.
CreationAdjustsStock ==
  [][/\ (revision = "normalized" /\ last'.op = "createSale" /\ last'.error = "") =>
          \A body \in SaleBodies :
            CreateRequest("sale", body) => items' = Adjusted(items, body.items, "item", -1)
     /\ (revision = "normalized" /\ last'.op = "createPurchase" /\ last'.error = "") =>
          \A body \in PurchaseBodies :
            CreateRequest("purchase", body) => items' = Adjusted(items, body.items, "item", 1)
     /\ (revision = "normalized" /\ last'.op = "createQuotation" /\ last'.error = "") =>
          \A body \in QuotationBodies :
            CreateRequest("quotation", body) => items' = items
     /\ (revision = "denormalized" /\ last'.op = "createSale" /\ last'.error = "") =>
          \A body \in LegacySaleBodies :
            LegacyCreateSaleRequest(body) =>
              items' = Adjusted(items, body.items, "product", -1)]_vars

\* C12: a createSale or updateSale request of the sale controller that answers
\* an error leaves the sales, the stock of every item and the quotations as
\* they were before the request.
SaleRequestAtomic ==
  [][(revision = "denormalized" /\ last'.op \in {"createSale", "updateSale"}
        /\ last'.error # "") =>
       /\ sales' = sales
       /\ items' = items
       /\ quotations' = quotations]_vars

(***************************************************************************)
(* Requests whose bodies carry fields a client is not meant to send, or    *)
(* lack fields it is meant to send.                                        *)
(***************************************************************************)
MaxStored == 1      \* documents created from these bodies

AnyCreateBodies ==
  {Body("factura", 1),
   Body("boleta", 1),
   Body("factura", 2),
   Body("factura", 3),
   [documentType |-> "factura", counterparty |-> Ref(1), items |-> <<>>],
   [documentType |-> "factura", counterparty |-> Ref(1)],
   [documentType |-> "guia", counterparty |-> Ref(1), items |-> Lines],
   [counterparty |-> Ref(1), items |-> Lines],
   Spread(Body("factura", 1), [status |-> "pending"]),
   Spread(Body("factura", 1),
          [type |-> "purchase", correlative |-> 7, documentNumber |-> "X-7",
           netAmount |-> 1, taxAmount |-> 1, totalAmount |-> 1])}

AnyUpdateBodies ==
  {[items |-> <<Line(1, 2, 1000, 100)>>],
   [items |-> <<>>],
   [documentType |-> "guia", items |-> <<Line(1, 2, 1000, 100)>>],
   [correlative |-> 7, type |-> "purchase"],
   [netAmount |-> 1]}

CreateAny ==
  \E kind \in TransactionType, body \in AnyCreateBodies :
    /\ Len(transactions) < MaxStored
    /\ CreateRequest(kind, body)

UpdateAny ==
  \E kind \in TransactionType, id \in Ids(transactions), body \in AnyUpdateBodies :
    UpdateRequest(kind, id, body)

NextBodies ==
  \/ CreateAny \/ UpdateAny
  \/ DeleteQuotation \/ DeleteSale \/ DeletePurchase
  \/ ChangeQuotationStatus \/ ChangeSaleStatus \/ ChangePurchaseStatus
  \/ ConvertQuotationToSale

InitBodies == revision = "normalized" /\ InitData

SpecBodies == InitBodies /\ [][NextBodies]_vars

\* C13: whatever update, change of status, soft delete or conversion is
\* served, a body carrying correlative or type fields included, every stored
\* record keeps the correlative and the kind it was created with.
CorrelativeAndKindFixed ==
  [][\A id \in 1..Len(transactions) :
       /\ transactions'[id].correlative = transactions[id].correlative
       /\ transactions'[id].type = transactions[id].type]_vars

Greatest(S) == CHOOSE m \in S : \A x \in S : x <= m

create(kind, body) ==
  CASE kind = "quotation" -> createQuotation(transactions, body)
    [] kind = "sale"      -> createSale(transactions, body)
    [] kind = "purchase"  -> createPurchase(transactions, body)

\* The records an operation adds to the collection, when it commits.
Added(outcome) == IF Committed(transactions, outcome) THEN outcome.inserts ELSE <<>>

\* C14: served one after the other, the creations and conversions give the
\* first record stored the correlative 1 and every later one 1 + the greatest
\* correlative of all records stored before it, of every kind and soft-deleted
\* ones included: records created in a row carry consecutive correlatives
\* whatever their kinds, and a deleted record's correlative is not given again.
CorrelativeIsNextOverAll ==
  \A id \in 1..Len(transactions) :
    transactions[id].correlative =
      IF id = 1 THEN 1
      ELSE Greatest({transactions[earlier].correlative : earlier \in 1..(id - 1)}) + 1

\* A record of one kind was created after the only other record, of another
\* kind, was soft-deleted: it carries correlative 2.
CreatedAfterDeleted ==
  /\ last.op \in {"createQuotation", "createSale", "createPurchase"}
  /\ Len(transactions) = 2
  /\ transactions[1].isDeleted
  /\ transactions[1].correlative = 1
  /\ transactions[2].type # transactions[1].type
  /\ transactions[2].correlative = 2

KindPrefix == [quotation |-> "COT", sale |-> "VEN", purchase |-> "COM"]

\* A number in decimal, with zeros in front of it up to four digits.
FourDigits(n) ==
  IF n < 10 THEN "000" \o ToString(n)
  ELSE IF n < 100 THEN "00" \o ToString(n)
  ELSE IF n < 1000 THEN "0" \o ToString(n)
  ELSE ToString(n)

\* C15: every record that createQuotation, createSale, createPurchase or
\* convertQuotationToSale has stored has as documentNumber the prefix of its kind
\* (COT, VEN, COM), a hyphen and its own correlative in decimal, padded with
\* zeros on the left to four digits.
DocumentNumberFormat ==
  \A id \in 1..Len(transactions) :
    LET doc == transactions[id]
    IN  doc.documentNumber = KindPrefix[doc.type] \o "-" \o FourDigits(doc.correlative)

\* A quotation numbered COT-0001 was converted into the sale VEN-0002.
NumberedConversion ==
  /\ last.op = "convertQuotationToSale"
  /\ Len(transactions) = 2
  /\ transactions[1].documentNumber = "COT-0001"
  /\ transactions[2].documentNumber = "VEN-0002"

(***************************************************************************)
(* previewQuotationCalculation, previewSaleCalculation and                 *)
(* previewPurchaseCalculation: the calculator applied to a request body,   *)
(* nothing stored.                                                         *)
(***************************************************************************)
\* A variant that always previews at the default rate.
PreviewTaxRateDefault(data) == DefaultTaxRate

\* const taxRate = data.taxRate || 0.19, as the preview computes it.
PreviewTaxRate(data) ==
  IF Has(data, "taxRate") /\ data.taxRate # 0 THEN data.taxRate ELSE DefaultTaxRate

\* A preview that throws returns nothing.
PreviewFail(err) ==
  [ok |-> FALSE, error |-> err, items |-> <<>>, netAmount |-> 0, taxAmount |-> 0,
   totalAmount |-> 0, taxRate |-> 0, documentType |-> ""]

previewCalculation(data) ==
  IF ~Has(data, "documentType") THEN PreviewFail("InvalidInput")
  ELSE IF data.documentType \notin DocumentType THEN PreviewFail("InvalidInput")
  ELSE IF ~Has(data, "items") \/ Len(data.items) = 0 THEN PreviewFail("InvalidInput")
  ELSE LET taxRate == PreviewTaxRate(data)
           calculations == calculateTransactionAmounts(data.items, data.documentType, taxRate)
       IN  [ok           |-> TRUE,
            error        |-> "",
            items        |-> calculations.processedItems,
            netAmount    |-> calculations.netAmount,
            taxAmount    |-> calculations.taxAmount,
            totalAmount  |-> calculations.totalAmount,
            taxRate      |-> taxRate,
            documentType |-> data.documentType]

previewQuotationCalculation(quotationData) == previewCalculation(quotationData)

previewSaleCalculation(saleData) == previewCalculation(saleData)

previewPurchaseCalculation(purchaseData) == previewCalculation(purchaseData)

MaxLines == 2       \* lines of a previewed body

\* Bodies of up to MaxLines lines, with and without a tax rate of their own,
\* with discounts smaller and greater than the line, and bodies that lack a
\* field or name a document type that does not exist.
PreviewBodies ==
  LET PreviewLines ==
        {Line(1, quantity, unitPrice, discount) :
           quantity \in {1, 3}, unitPrice \in {500, 1000}, discount \in {0, 100, 5000}}
      PreviewItems == UNION {[1..n -> PreviewLines] : n \in 0..MaxLines}
  IN  {[documentType |-> documentType, items |-> lines] :
         documentType \in DocumentType \cup {"guia"}, lines \in PreviewItems}
        \cup {[documentType |-> documentType, items |-> lines, taxRate |-> 10] :
                documentType \in DocumentType, lines \in PreviewItems}
        \cup {[documentType |-> documentType, items |-> Lines] : documentType \in DocumentType}
        \cup {[items |-> Lines], [documentType |-> "factura"]}

Preview(op, body, result) ==
  /\ last' = [op |-> op, error |-> result.error, body |-> body, result |-> result]
  /\ UNCHANGED <<logs, revision, transactions, quotations, sales, items, contacts, sessions,
                 stockCalls, stockLog>>

PreviewQuotation ==
  /\ last.op = "request"
  /\ Preview("previewQuotationCalculation", last.body, previewQuotationCalculation(last.body))

PreviewSale ==
  /\ last.op = "request"
  /\ Preview("previewSaleCalculation", last.body, previewSaleCalculation(last.body))

PreviewPurchase ==
  /\ last.op = "request"
  /\ Preview("previewPurchaseCalculation", last.body, previewPurchaseCalculation(last.body))

NextCalculator == PreviewQuotation \/ PreviewSale \/ PreviewPurchase

InitCalculator ==
  /\ revision = "normalized"
  /\ InitDatabase
  /\ last \in {[op |-> "request", error |-> "", body |-> body, result |-> PreviewFail("")] :
                 body \in PreviewBodies}

SpecCalculator == InitCalculator /\ [][NextCalculator]_vars

Previews ==
  {"previewQuotationCalculation", "previewSaleCalculation", "previewPurchaseCalculation"}

\* A preview has answered with amounts for a body of this document type.
Previewed(documentType) ==
  /\ last.op \in Previews
  /\ last.result.ok
  /\ last.body.documentType = documentType

\* r is n * rate / 100 rounded to the nearest integer, halves upwards.
IsRounded(r, n, d) == 2 * (r * d - n) <= d /\ 2 * (n - r * d) < d

BoletaSubtotalAsStated ==
  Previewed("boleta") =>
    LET body == last.body
        result == last.result
        scale == 100 + result.taxRate
        Stated(line) ==
          Max0(RoundDiv(line.quantity * line.unitPrice * 100, scale) * scale
                 - line.discount * 100)
        StatedSum == LET Sum[i \in 0..Len(body.items)] ==
                           IF i = 0 THEN 0 ELSE Sum[i - 1] + Stated(body.items[i])
                     IN  Sum[Len(body.items)]
    IN  /\ \A i \in 1..Len(body.items) :
             result.items[i].subtotal * scale = Stated(body.items[i])
        /\ IsRounded(result.netAmount, StatedSum, scale)

\* C17: for a boleta, whose prices and discounts include the tax, the
\* calculator stores each line's unit price and discount divided by
\* 1 + taxRate and rounded, gives the line the subtotal
\* round((quantity * unitPrice - discount) / (1 + taxRate)) floored at 0,
\* netAmount the sum of the subtotals, taxAmount = round(netAmount * taxRate)
\* and totalAmount = netAmount + taxAmount; the lines 3 @ 1000 and 1 @ 500 at
\* 0.19 give 2941, 559 and 3500.
BoletaAmounts ==
  Previewed("boleta") =>
    LET body == last.body
        result == last.result
        scale == 100 + result.taxRate
    IN  /\ Len(result.items) = Len(body.items)
        /\ \A i \in 1..Len(body.items) :
             LET line == body.items[i]
                 gross == line.quantity * line.unitPrice - line.discount
             IN  /\ IsRounded(result.items[i].unitPrice, line.unitPrice * 100, scale)
                 /\ IsRounded(result.items[i].discount, line.discount * 100, scale)
                 /\ IF gross > 0
                    THEN IsRounded(result.items[i].subtotal, gross * 100, scale)
                    ELSE result.items[i].subtotal = 0
        /\ result.netAmount = SumSubtotals(result.items)
        /\ IsRounded(result.taxAmount, result.netAmount * result.taxRate, 100)
        /\ result.totalAmount = result.netAmount + result.taxAmount
        /\ (body.items = Lines /\ result.taxRate = 19) =>
             /\ result.netAmount = 2941
             /\ result.taxAmount = 559
             /\ result.totalAmount = 3500

\* A boleta with a discounted line that keeps a positive subtotal was
\* previewed.
DiscountedBoletaPreviewed ==
  /\ Previewed("boleta")
  /\ \E i \in 1..Len(last.body.items) :
       last.body.items[i].discount > 0 /\ last.result.items[i].subtotal > 0

PreviewedKind ==
  [previewQuotationCalculation |-> "quotation",
   previewSaleCalculation      |-> "sale",
   previewPurchaseCalculation  |-> "purchase"]

\* What the create operation of the kind just previewed does with the same
\* body, sent with a counterparty.
CreatePreviewed == create(PreviewedKind[last.op], Spread(last.body, [counterparty |-> Ref(1)]))

AmountFields == {"items", "netAmount", "taxAmount", "totalAmount", "taxRate", "documentType"}

\* C18: for each of the three kinds, when the preview answers with amounts,
\* the create operation given the same items, documentType and taxRate stores
\* a record whose lines, netAmount, taxAmount, totalAmount, taxRate and
\* documentType are the ones the preview returned.
PreviewMatchesCreate ==
  (last.op \in Previews /\ last.result.ok) =>
    /\ Committed(transactions, CreatePreviewed)
    /\ Len(Added(CreatePreviewed)) = 1
    /\ \A f \in AmountFields : Added(CreatePreviewed)[1][f] = last.result[f]

\* A boleta that names its own tax rate was previewed, and its creation
\* would be stored.
RatedBoletaPreviewed ==
  /\ Previewed("boleta")
  /\ Has(last.body, "taxRate")
  /\ last.result.taxRate = 10
  /\ last.result.netAmount > 0
  /\ Committed(transactions, CreatePreviewed)

\* C19: a request with an empty item list, or with a documentType other than
\* factura and boleta, is refused before anything is written: no stored
\* record has zero lines, and none has another documentType.
NoEmptyNorUnrecognized ==
  \A id \in 1..Len(transactions) :
    /\ Len(transactions[id].items) > 0
    /\ transactions[id].documentType \in DocumentType

\* C20: every stored record's netAmount is the sum of its stored lines'
\* subtotals, its taxAmount is round(netAmount * taxRate) and its totalAmount
\* is netAmount + taxAmount: no request stores amounts that were not derived
\* from the lines.
AmountsDerivedFromItems ==
  \A id \in 1..Len(transactions) :
    LET doc == transactions[id]
    IN  /\ doc.netAmount = SumSubtotals(doc.items)
        /\ IsRounded(doc.taxAmount, doc.netAmount * doc.taxRate, 100)
        /\ doc.totalAmount = doc.netAmount + doc.taxAmount

\* The role a counterparty must hold for a record of each kind.
HoldsRole(contact, kind) ==
  IF kind = "purchase" THEN contact.isSupplier ELSE contact.isCustomer

\* C21: a record is stored only when its counterparty is an existing contact
\* holding the role of the record's kind, customer for quotations and sales,
\* supplier for purchases: every stored record refers to such a contact.
CounterpartyHoldsRole ==
  \A id \in 1..Len(transactions) :
    \A c \in transactions[id].counterparty :
      /\ c \in DOMAIN contacts
      /\ HoldsRole(contacts[c], transactions[id].type)

(***************************************************************************)
(* The audit log.  Every service operation, once its writes are made and   *)
(* before it commits, awaits logService.createLog, which writes one entry  *)
(* to the Log collection outside the session.  The write may fail (the     *)
(* sink is down, the entry does not validate); createLog catches the       *)
(* failure and returns null.                                               *)
(***************************************************************************)
MaxLogs == 1        \* audit entries written

\* A createLog that lets the failure of Log.create reach its caller.
createLogRethrowing(lg, entry, sinkUp) ==
  IF sinkUp THEN [logs |-> Append(lg, entry), result |-> <<entry>>, thrown |-> FALSE]
  ELSE [logs |-> lg, result |-> Null, thrown |-> TRUE]

createLog(lg, entry, sinkUp) ==
  IF sinkUp THEN [logs |-> Append(lg, entry), result |-> <<entry>>, thrown |-> FALSE]
  ELSE [logs |-> lg, result |-> Null, thrown |-> FALSE]

LogOperation(op) ==
  IF op \in {"createQuotation", "createSale", "createPurchase", "convertQuotationToSale"}
  THEN "create"
  ELSE IF op \in {"deleteQuotation", "deleteSale", "deletePurchase"} THEN "delete"
  ELSE "update"

LogCollectionType(op) ==
  IF op \in {"createQuotation", "updateQuotation", "deleteQuotation", "changeQuotationStatus"}
  THEN "quotation"
  ELSE IF op \in {"createPurchase", "updatePurchase", "deletePurchase", "changePurchaseStatus"}
  THEN "purchase"
  ELSE "sale"

LogEntry(op, id) ==
  [operation |-> LogOperation(op), collectionType |-> LogCollectionType(op), documentId |-> id]

\* A service operation with its audit entry: the operation's reads, checks
\* and writes (outcome), then createLog, then the commit; an exception
\* anywhere in between aborts the session.
Audited(docs, lg, entry, outcome, written) ==
  IF ~Committed(docs, outcome) THEN [outcome |-> outcome, logs |-> lg]
  ELSE IF written.thrown THEN [outcome |-> Fail("Error"), logs |-> written.logs]
  ELSE [outcome |-> outcome, logs |-> written.logs]

AuditedService(docs, lg, op, id, outcome, sinkUp) ==
  Audited(docs, lg, LogEntry(op, id), outcome, createLog(lg, LogEntry(op, id), sinkUp))

ServeAudited(op, served) ==
  /\ revision = "normalized"
  /\ Len(logs) < MaxLogs
  /\ transactions' = Commit(transactions, served.outcome)
  /\ logs' = served.logs
  /\ last' = IF Committed(transactions, served.outcome) THEN [op |-> op, error |-> ""]
             ELSE last
  /\ UNCHANGED <<revision, quotations, sales, items, contacts, sessions, stockCalls, stockLog>>

KindOperation(prefix, kind) ==
  prefix \o (CASE kind = "quotation" -> "Quotation"
               [] kind = "sale"      -> "Sale"
               [] kind = "purchase"  -> "Purchase")

\* The requests name stored records, by the routes of their kinds.
Stored == 1..Len(transactions)

KindOf(id) == transactions[id].type

AuditedStatuses == {"approved", "rejected", "converted", "invoiced", "received"}

AuditedBodies(kind) == IF kind = "purchase" THEN Body("factura", 2) ELSE Body("factura", 1)

AuditedCreate ==
  \E kind \in TransactionType, sinkUp \in BOOLEAN :
    /\ Len(transactions) < MaxTx
    /\ ServeAudited(KindOperation("create", kind),
                    AuditedService(transactions, logs, KindOperation("create", kind),
                                   Len(transactions) + 1,
                                   create(kind, AuditedBodies(kind)), sinkUp))

AuditedUpdate ==
  \E id \in Stored, body \in UpdateBodies, sinkUp \in BOOLEAN :
    /\ Len(transactions) > 0
    /\ ServeAudited(KindOperation("update", KindOf(id)),
                    AuditedService(transactions, logs, KindOperation("update", KindOf(id)), id,
                                   update(KindOf(id), id, body), sinkUp))

AuditedDelete ==
  \E id \in Stored, sinkUp \in BOOLEAN :
    /\ Len(transactions) > 0
    /\ ServeAudited(KindOperation("delete", KindOf(id)),
                    AuditedService(transactions, logs, KindOperation("delete", KindOf(id)), id,
                                   delete(KindOf(id), id), sinkUp))

AuditedChangeStatus ==
  \E id \in Stored, status \in AuditedStatuses, sinkUp \in BOOLEAN :
    /\ Len(transactions) > 0
    /\ ServeAudited("change" \o KindOperation("", KindOf(id)) \o "Status",
                    AuditedService(transactions, logs,
                                   "change" \o KindOperation("", KindOf(id)) \o "Status", id,
                                   changeStatus(KindOf(id), id, status), sinkUp))

AuditedConvert ==
  \E id \in Stored, sinkUp \in BOOLEAN :
    /\ Len(transactions) < MaxTx
    /\ ServeAudited("convertQuotationToSale",
                    AuditedService(transactions, logs, "convertQuotationToSale",
                                   Len(transactions) + 1,
                                   convertQuotationToSale(transactions, id), sinkUp))

NextAudit ==
  AuditedCreate \/ AuditedUpdate \/ AuditedDelete \/ AuditedChangeStatus \/ AuditedConvert

InitAudit == revision = "normalized" /\ InitData

SpecAudit == InitAudit /\ [][NextAudit]_vars

\* The requests that may be served now, each with the id its audit entry names.
AuditedRequests ==
  {Request(KindOperation("create", kind), Len(transactions) + 1, AuditedBodies(kind), "") :
     kind \in TransactionType}
    \cup {Request(KindOperation("update", KindOf(id)), id, body, "") :
            id \in Stored, body \in UpdateBodies}
    \cup {Request(KindOperation("delete", KindOf(id)), id, <<>>, "") : id \in Stored}
    \cup {Request("change" \o KindOperation("", KindOf(id)) \o "Status", id, <<>>, st) :
            id \in Stored, st \in AuditedStatuses}
    \cup {Request("convertQuotationToSale", id, <<>>, "") : id \in Stored}

AuditedRun(request, outcome, sinkUp) ==
  AuditedService(transactions, logs, request.op,
                 IF request.op = "convertQuotationToSale" THEN Len(transactions) + 1
                 ELSE request.id,
                 outcome, sinkUp)

\* C22: whatever create, update, delete, change of status or conversion is
\* served, createLog does not throw when the write of the entry fails, it
\* returns null; and the operation has the same outcome and commits the same
\* collection when the write of its audit entry fails as when it succeeds.
AuditFailureHarmless ==
  \A request \in AuditedRequests :
    LET outcome  == Run(transactions, request)
        logged   == AuditedRun(request, outcome, TRUE)
        unlogged == AuditedRun(request, outcome, FALSE)
        failed   == createLog(logs, LogEntry(request.op, request.id), FALSE)
    IN  /\ ~failed.thrown
        /\ failed.result = Null
        /\ unlogged.outcome = logged.outcome
        /\ Commit(transactions, unlogged.outcome) = Commit(transactions, logged.outcome)

\* A quotation was created, approved and converted while only the creation
\* left an audit entry: the two later entries failed to be written.
CommittedUnlogged ==
  /\ last.op = "convertQuotationToSale"
  /\ Len(transactions) = 2
  /\ transactions[1].status = "converted"
  /\ Len(logs) = 1

(***************************************************************************)
(* Reading: getQuotationById, getSaleById, getPurchaseById match on _id,   *)
(* type and isDeleted: false; getQuotations, getSales, getPurchases match  *)
(* on type and, unless the filter includeDeleted is given, on isDeleted:   *)
(* false.                                                                  *)
(***************************************************************************)
getById(docs, id, kind) == IF FindOne(docs, id, kind) THEN <<docs[id]>> ELSE Null

getAll(docs, kind, includeDeleted) ==
  {id \in 1..Len(docs) : docs[id].type = kind /\ (includeDeleted \/ ~docs[id].isDeleted)}

\* A soft-deleted record is returned by no default query, and every update,
\* delete, change of status and conversion that names it answers not found.
DeletedHidden ==
  \A id \in 1..Len(transactions) :
    transactions[id].isDeleted =>
      /\ \A kind \in TransactionType :
           /\ getById(transactions, id, kind) = Null
           /\ id \notin getAll(transactions, kind, FALSE)
           /\ \A body \in UpdateBodies \cup {[isDeleted |-> FALSE]} :
                update(kind, id, body) = Fail("NotFound")
           /\ delete(kind, id) = Fail("NotFound")
           /\ \A status \in StatusInputs : changeStatus(kind, id, status) = Fail("NotFound")
      /\ convertQuotationToSale(transactions, id) = Fail("NotFound")

\* No step removes a record, and no step clears the isDeleted flag of one.
DeletedKept ==
  /\ Len(transactions') >= Len(transactions)
  /\ Len(quotations') >= Len(quotations)
  /\ Len(sales') >= Len(sales)
  /\ \A id \in 1..Len(transactions) : transactions[id].isDeleted => transactions'[id].isDeleted
  /\ \A id \in 1..Len(quotations) : quotations[id].isDeleted => quotations'[id].isDeleted
  /\ \A id \in 1..Len(sales) : sales[id].isDeleted => sales'[id].isDeleted

\* C23: records are only ever soft-deleted: no request removes a record from
\* its collection; a record whose isDeleted is true is left out of the
\* default list and of get-by-id, every update, delete, change of status and
\* conversion naming it fails as not found, and its isDeleted stays true.
SoftDeleteOnly == [](DeletedHidden) /\ [][DeletedKept]_vars

\* A record was soft-deleted and another request took effect after that.
DeletedRetained ==
  /\ Len(transactions) = 2
  /\ transactions[1].isDeleted
  /\ last.op \in {"createQuotation", "createSale", "createPurchase", "updateSale"}

(***************************************************************************)
(* Requests on contacts, served one at a time.  The collection starts with *)
(* a customer and a supplier.                                              *)
(***************************************************************************)
MaxContacts == 3    \* contacts stored

ContactRuts == {Rut1, Rut1Dotted, Rut3, Rut3Dotted}

ContactBodies ==
  {[rut |-> rut] : rut \in ContactRuts}
    \cup {[rut |-> rut, isCustomer |-> c, isSupplier |-> s] :
            rut \in ContactRuts, c \in BOOLEAN, s \in BOOLEAN}

ContactUpdateBodies ==
  {[isCustomer |-> FALSE], [isSupplier |-> FALSE], [isSupplier |-> TRUE],
   [isCustomer |-> FALSE, isSupplier |-> FALSE]}
    \cup {[rut |-> rut] : rut \in ContactRuts}

ServeContact(op, answer) ==
  /\ revision = "normalized"
  /\ contacts' = answer.contacts
  /\ last' = IF answer.error = "" THEN [op |-> op, error |-> ""] ELSE last
  /\ UNCHANGED <<logs, revision, transactions, quotations, sales, items, sessions, stockCalls,
                 stockLog>>

CreateContact ==
  \E body \in ContactBodies :
    /\ Len(contacts) < MaxContacts
    /\ ServeContact("createContact", createContact(contacts, body))

UpdateContact ==
  \E id \in Ids(contacts), body \in ContactUpdateBodies :
    /\ Len(contacts) > 0
    /\ ServeContact("updateContact", updateContact(contacts, id, body))

CreateClient ==
  \E body \in ContactBodies :
    /\ Len(contacts) < MaxContacts
    /\ ServeContact("createClient", createClient(contacts, body))

UpdateClient ==
  \E id \in Ids(contacts), body \in ContactUpdateBodies :
    /\ Len(contacts) > 0
    /\ ServeContact("updateClient", updateClient(contacts, id, body))

DeleteClient ==
  \E id \in Ids(contacts) :
    /\ Len(contacts) > 0
    /\ ServeContact("deleteClient", deleteClient(contacts, id))

DeleteSupplier ==
  \E id \in Ids(contacts) :
    /\ Len(contacts) > 0
    /\ ServeContact("deleteSupplier", deleteSupplier(contacts, id))

NextContacts ==
  \/ CreateContact \/ UpdateContact \/ CreateClient \/ UpdateClient
  \/ DeleteClient \/ DeleteSupplier

InitContacts == revision = "normalized" /\ InitData

SpecContacts == InitContacts /\ [][NextContacts]_vars

\* C24: after any sequence of createContact (the reactivation of a
\* soft-deleted contact included), updateContact, createClient, updateClient,
\* deleteClient and deleteSupplier, every contact that is not deleted is a
\* customer or a supplier.
EveryContactHasRole ==
  \A id \in 1..Len(contacts) :
    ~contacts[id].isDeleted => contacts[id].isCustomer \/ contacts[id].isSupplier

\* C25: a create or an update that would give a contact the rut of another
\* contact is refused as a conflict, in whatever form the rut is sent, with
\* or without dots and hyphen: no two stored contacts have the same
\* normalized rut.
NoSharedRut ==
  \A id, other \in 1..Len(contacts) :
    id # other => normalizeRut(contacts[id].rut) # normalizeRut(contacts[other].rut)

\* C26: a step that serves updateQuotation, updateSale or updatePurchase
\* leaves the status and the isDeleted flag of every stored record as they
\* were, whatever fields the body carries: a status changes only through the
\* change-status operations and the conversion.
UpdateKeepsStatus ==
  [][last'.op \in {"updateQuotation", "updateSale", "updatePurchase"} =>
       /\ \A id \in 1..Len(transactions) :
            /\ transactions'[id].status = transactions[id].status
            /\ transactions'[id].isDeleted = transactions[id].isDeleted
       /\ \A id \in 1..Len(sales) :
            \A f \in {"status", "isDeleted"} :
              Has(sales[id], f) => Has(sales'[id], f) /\ sales'[id][f] = sales[id][f]]_vars

(***************************************************************************)
(* Sales made from one quotation: the quotation is created, taken through  *)
(* its statuses, converted, and named as relatedQuotation by new sales,    *)
(* which may be deleted.                                                   *)
(***************************************************************************)
MaxQuotations == 1  \* quotations stored

MaxSales == 2       \* sales stored

OfKind(docs, kind) == {id \in 1..Len(docs) : docs[id].type = kind}

QuoteOnce ==
  \E body \in QuotationBodies :
    /\ Cardinality(OfKind(transactions, "quotation")) < MaxQuotations
    /\ Serve("createQuotation", Len(transactions) + 1, createQuotation(transactions, body))

ConvertQuotation ==
  \E id \in Ids(transactions) :
    /\ Cardinality(OfKind(transactions, "sale")) < MaxSales
    /\ Serve("convertQuotationToSale", id, convertQuotationToSale(transactions, id))

RelatedSaleBodies ==
  {Spread(Body("factura", 1), [relatedQuotation |-> Ref(q)]) : q \in Ids(transactions)}
    \cup {Spread(Body("factura", 1), [relatedQuotation |-> Ref(q), status |-> "pending"]) :
            q \in Ids(transactions)}

CreateRelatedSale ==
  \E body \in RelatedSaleBodies :
    /\ Cardinality(OfKind(transactions, "sale")) < MaxSales
    /\ Serve("createSale", Len(transactions) + 1, createSale(transactions, body))

NextConversions ==
  \/ QuoteOnce \/ ChangeQuotationStatus \/ ConvertQuotation \/ CreateRelatedSale
  \/ ChangeSaleStatus \/ DeleteSale

InitConversions == revision = "normalized" /\ InitData

SpecConversions == InitConversions /\ [][NextConversions]_vars

\* The sales, not deleted, whose relatedQuotation is the record q.
SalesOf(docs, q) ==
  {id \in OfKind(docs, "sale") : ~docs[id].isDeleted /\ docs[id].relatedQuotation = Ref(q)}

\* C27: a quotation is converted at most once: whatever conversions and
\* creations of sales are served, at most one sale that is not deleted names
\* a given quotation as its relatedQuotation.
ConvertedAtMostOnce ==
  \A q \in OfKind(transactions, "quotation") : Cardinality(SalesOf(transactions, q)) <= 1

\* C28: a step that serves createSale gives the status converted only to a
\* record that was a quotation, not deleted, in status approved: a quotation
\* that is pending or rejected, a deleted one, and a record of another kind
\* are left as they were.
CreateSaleConvertsApprovedOnly ==
  [][last'.op = "createSale" =>
       /\ \A id \in 1..Len(transactions) :
            transactions'[id].status = "converted" /\ transactions[id].status # "converted" =>
              /\ transactions[id].type = "quotation"
              /\ ~transactions[id].isDeleted
              /\ transactions[id].status = "approved"
       /\ \A id \in 1..Len(quotations) :
            quotations'[id].status = "converted" /\ quotations[id].status # "converted" =>
              /\ ~quotations[id].isDeleted
              /\ quotations[id].status = "approved"]_vars

\* C29: every quotation in status converted is named as relatedQuotation by
\* a stored sale: no change of status, creation, conversion or deletion
\* leaves a converted quotation without a sale made from it.
ConvertedHasSale ==
  \A q \in 1..Len(transactions) :
    transactions[q].type = "quotation" /\ transactions[q].status = "converted" =>
      \E id \in 1..Len(transactions) :
        transactions[id].type = "sale" /\ transactions[id].relatedQuotation = Ref(q)

(***************************************************************************)
(* The sessions of the controllers.  A handler starts a session and a      *)
(* transaction on entry; it commits and ends them before its success       *)
(* answer and aborts and ends them in its catch block.  A validation       *)
(* branch answers with `return` from inside the try block, which has no    *)
(* finally: the session it leaves is neither committed, aborted nor ended. *)
(* sessions[p] is here the session worker p started last: how it ended,    *)
(* and whether the handler had written to a collection by then.            *)
(***************************************************************************)

\* saleController.createSale: the branches that answer 400 or 404 and return.
CreateSaleReturns(qs, its, cs, body) ==
  \/ ~IsCustomer(cs, body.client)
  \/ LinesProblem(its, body.items) # "none"
  \/ /\ Has(body, "quotationRef") /\ body.quotationRef # NoRef
     /\ LET q == CHOOSE q \in body.quotationRef : TRUE
        IN  ~(q \in 1..Len(qs) /\ ~qs[q].isDeleted)

\* saleController.updateSale: sale not found, correlative or documentNumber
\* changed.  The stock branches of its loop abort and end before they return.
UpdateSaleReturns(ss, id, body) ==
  \/ ~(id \in 1..Len(ss) /\ ~ss[id].isDeleted)
  \/ Has(body, "correlative") /\ body.correlative # ss[id].correlative
  \/ Has(body, "documentNumber") /\ body.documentNumber # ss[id].documentNumber

\* saleController.deleteSale: sale not found.
DeleteSaleReturns(ss, id) == ~(id \in 1..Len(ss) /\ ~ss[id].isDeleted)

\* quotationController.createQuotation: invalid client, invalid product.
CreateQuotationReturns(its, cs, body) ==
  \/ ~IsCustomer(cs, body.client)
  \/ \E i \in 1..Len(body.items) : ~ItemExists(its, body.items[i].product)

\* quotationController.convertToSale: quotation not found, not convertible,
\* product missing or short of stock.
ConvertToSaleReturns(qs, its, id) ==
  \/ ~(id \in 1..Len(qs) /\ ~qs[id].isDeleted)
  \/ ~LegacyConvertibleStatus(qs[id].status)
  \/ LinesProblem(its, qs[id].items) # "none"

\* How the handler leaves its session: open on a return from the try block,
\* committed with the success answer, aborted on every other error.
SessionEnd(returned, answer) ==
  IF returned THEN "open" ELSE IF answer.ok THEN "committed" ELSE "aborted"

\* StockService.updateBulkStock: a session around the updateStock calls, which
\* are not given it.
updateBulkStock(its, entries) ==
  LET stock == UpdateStockForLines(its, entries, 1)
  IN  Answer(~stock.threw, IF stock.threw THEN "InsufficientStock" ELSE "",
             quotations, sales, stock.items)

BulkEntries ==
  {<<[product |-> 1, quantity |-> 1]>>,
   <<[product |-> 1, quantity |-> 1], [product |-> 1, quantity |-> -(InitStock + 2)]>>}

HandleInSession(p, op, returned, answer) ==
  /\ revision = "denormalized"
  /\ quotations' = answer.quotations
  /\ sales' = answer.sales
  /\ items' = answer.items
  /\ last' = IF answer.error = "" \/ Wrote(answer)
             THEN [op |-> op, error |-> answer.error] ELSE last
  /\ sessions' = [sessions EXCEPT ![p] = [op      |-> SessionEnd(returned, answer),
                                          request |-> op,
                                          wrote   |-> Wrote(answer)]]
  /\ UNCHANGED <<logs, revision, transactions, contacts, stockCalls, stockLog>>

CreateSaleInSession ==
  \E p \in 1..MaxProc, body \in LegacySaleBodies :
    /\ Len(quotations) + Len(sales) < MaxTx
    /\ HandleInSession(p, "createSale", CreateSaleReturns(quotations, items, contacts, body),
                       LegacyCreateSale(quotations, sales, items, contacts, body))

UpdateSaleInSession ==
  \E p \in 1..MaxProc, id \in Ids(sales), body \in LegacySaleUpdateBodies :
    /\ revision = "denormalized"
    /\ HandleInSession(p, "updateSale", UpdateSaleReturns(sales, id, body),
                       LegacyUpdateSale(quotations, sales, items, id, body))

DeleteSaleInSession ==
  \E p \in 1..MaxProc, id \in Ids(sales) :
    /\ revision = "denormalized"
    /\ HandleInSession(p, "deleteSale", DeleteSaleReturns(sales, id),
                       LegacyDeleteSale(quotations, sales, items, id))

CreateQuotationInSession ==
  \E p \in 1..MaxProc, body \in LegacyQuotationBodies :
    /\ Len(quotations) + Len(sales) < MaxTx
    /\ HandleInSession(p, "createQuotation", CreateQuotationReturns(items, contacts, body),
                       LegacyCreateQuotation(quotations, sales, items, contacts, body))

ConvertToSaleInSession ==
  \E p \in 1..MaxProc, id \in Ids(quotations), body \in LegacyConvertBodies :
    /\ Len(quotations) + Len(sales) < MaxTx
    /\ HandleInSession(p, "convertToSale", ConvertToSaleReturns(quotations, items, id),
                       LegacyConvertToSale(quotations, sales, items, id, body))

UpdateBulkStock ==
  \E p \in 1..MaxProc, entries \in BulkEntries :
    /\ items[1].stock # Null /\ StockOf(items[1]) < InitStock + 1
    /\ HandleInSession(p, "updateBulkStock", FALSE, updateBulkStock(items, entries))

NextHandlers ==
  \/ CreateSaleInSession \/ UpdateSaleInSession \/ DeleteSaleInSession
  \/ CreateQuotationInSession \/ ConvertToSaleInSession \/ UpdateBulkStock

InitHandlers == revision = "denormalized" /\ InitData

SpecHandlers == InitHandlers /\ [][NextHandlers]_vars

\* C30: the session a handler or service started is committed or aborted and
\* ended when the operation has answered, on its validation returns too, and
\* an operation whose session was aborted has left nothing written.
SessionsSettled ==
  \A p \in 1..MaxProc :
    sessions[p] # Idle =>
      /\ sessions[p].op \in {"committed", "aborted"}
      /\ sessions[p].op = "aborted" => ~sessions[p].wrote

====
